---- MODULE Spec2Model ----
(***************************************************************************)
(* Verification model of the pokernowbot decision core:                    *)
(*   - helpers/gto-preflop.ts     (preflop engine)                         *)
(*   - helpers/postflop-engine.ts (postflop EV engine)                     *)
(*   - helpers/range-tracker.ts   (opponent range model)                   *)
(*   - models/player-stats.ts     (opponent statistics)                    *)
(*                                                                         *)
(* Units.  Big-blind amounts (stacks, raise sizes, sizings) are integers   *)
(* in hundredths of a big blind, confidences are integers in hundredths,   *)
(* the opponent statistics (VPIP, PFR, 3-bet percentages, aggression       *)
(* factor) are exact rationals.  A value of type                           *)
(* "PlayerStats | null" is a sequence of length at most one: << >> is      *)
(* null, <<s>> is the stats object s.  A card is a pair <<rank, suit>>.    *)
(***************************************************************************)
EXTENDS Integers, Sequences, FiniteSets, TLC

VARIABLES
    op,         \* name of the operation performed last
    gto_in,     \* arguments of the last getGTOPreflopAction call
    gto_out,    \* the GTODecision it returned
    ctx_in,     \* arguments of analyzePreflopContext: the betting log so far, hero, positions
    ctx_out,    \* the PreflopContext derived from ctx_in
    pf_in,      \* arguments of the last getPostflopEVDecision call
    pf_allEVs,  \* its local array allEVs when it returned
    pf_out,     \* the PostflopDecision it returned
    ranges,     \* RangeTracker.ranges: player id -> WeightedHand[]
    rt_call,    \* the RangeTracker method called last, with its arguments
    nOps,       \* number of RangeTracker calls made so far
    wasReset,   \* whether RangeTracker.reset has been called
    fn_in,      \* arguments of the last call of a pure helper function
    fn_out,     \* the value it returned
    eq_in,      \* arguments of the calculateEquity call in progress
    eq_sim,     \* its loop counter sim
    eq_wins,    \* its local wins
    eq_ties,    \* its local ties
    eq_deal,    \* the ranks evaluated in the trials run so far, one record per trial
    eq_out,     \* the value it returned: << >> while it runs, <<equity>> after
    player_stats,       \* the PlayerStats the table caches, by player id
    id_to_action_num,   \* Table.idToActionNum
    lp_logs,    \* the entries of logs that postProcessLogsAfterHand has gone through
    lp_local,   \* its locals action_count, preflop_raise_count, is_preflop
    nHands      \* number of calls of postProcessLogsAfterHand so far

gtoVars == <<gto_in, gto_out>>
ctxVars == <<ctx_in, ctx_out>>
pfVars == <<pf_in, pf_allEVs, pf_out>>
rtVars == <<ranges, rt_call, nOps, wasReset>>
fnVars == <<fn_in, fn_out>>
eqVars == <<eq_in, eq_sim, eq_wins, eq_ties, eq_deal, eq_out>>
lpVars == <<player_stats, id_to_action_num, lp_logs, lp_local, nHands>>
vars == <<op, gto_in, gto_out, ctx_in, ctx_out, pf_in, pf_allEVs, pf_out,
          ranges, rt_call, nOps, wasReset, fn_in, fn_out,
          eq_in, eq_sim, eq_wins, eq_ties, eq_deal, eq_out,
          player_stats, id_to_action_num, lp_logs, lp_local, nHands>>

(***************************************************************************)
(* Generic helpers                                                         *)
(***************************************************************************)
\* table[key] ?? dflt
Lookup(table, key, dflt) == IF key \in DOMAIN table THEN table[key] ELSE dflt

\* Array.prototype.indexOf, zero based, -1 when absent
IndexOf(seq, x) ==
    IF \E i \in 1..Len(seq) : seq[i] = x
    THEN (CHOOSE i \in 1..Len(seq) : seq[i] = x /\ \A j \in 1..(i-1) : seq[j] # x) - 1
    ELSE -1

Max(a, b) == IF a >= b THEN a ELSE b
Min(a, b) == IF a <= b THEN a ELSE b

(***************************************************************************)
(* models/player-stats.ts                                                  *)
(***************************************************************************)
\* Exact rationals <<numerator, denominator>> with a positive denominator:
\* the statistics are quotients of counters, compared against thresholds.
Q(n, d) == IF d < 0 THEN <<-n, -d>> ELSE <<n, d>>
QLt(a, b) == a[1] * b[2] < b[1] * a[2]
QLe(a, b) == a[1] * b[2] <= b[1] * a[2]
QGt(a, b) == QLt(b, a)
QGe(a, b) == QLe(b, a)

getTotalHands(s) == s.total_hands

\* vpip_hands / (total_hands - walks) * 100
computeVPIPStat(s) ==
    IF s.total_hands - s.walks = 0 THEN Q(0, 1)
    ELSE Q(s.vpip_hands * 100, s.total_hands - s.walks)

\* pfr_hands / (total_hands - walks) * 100
computePFRStat(s) ==
    IF s.total_hands - s.walks = 0 THEN Q(0, 1)
    ELSE Q(s.pfr_hands * 100, s.total_hands - s.walks)

get3BetOpportunities(s) == s.three_bet_opportunities

\* three_bet_hands / three_bet_opportunities * 100
compute3BetStat(s) ==
    IF s.three_bet_opportunities = 0 THEN Q(0, 1)
    ELSE Q(s.three_bet_hands * 100, s.three_bet_opportunities)

\* total_bets_raises / total_calls; 99.0 when there is no call but a raise
computeAggressionFactor(s) ==
    IF s.total_calls = 0
    THEN (IF s.total_bets_raises > 0 THEN Q(99, 1) ELSE Q(0, 1))
    ELSE Q(s.total_bets_raises, s.total_calls)

(***************************************************************************)
(* helpers/gto-preflop.ts : hand notation and strength                     *)
(***************************************************************************)
RANK_ORDER == <<"2", "3", "4", "5", "6", "7", "8", "9", "T", "J", "Q", "K", "A">>

normalizeHand(card1, card2) ==
    LET r1 == IF card1[1] = "10" THEN "T" ELSE card1[1]
        r2 == IF card2[1] = "10" THEN "T" ELSE card2[1]
        s1 == card1[2]
        s2 == card2[2]
        i1 == IndexOf(RANK_ORDER, r1)
        i2 == IndexOf(RANK_ORDER, r2)
        high == IF i1 >= i2 THEN r1 ELSE r2
        low  == IF i1 >= i2 THEN r2 ELSE r1
    IN  IF r1 = r2 THEN high \o low
        ELSE high \o low \o (IF s1 = s2 THEN "s" ELSE "o")

HAND_STRENGTH ==
    "AA" :> 100 @@ "KK" :> 99 @@ "QQ" :> 98 @@ "JJ" :> 96 @@ "TT" :> 93 @@ "99" :> 88 @@
    "88" :> 83 @@ "77" :> 78 @@ "66" :> 72 @@ "55" :> 66 @@ "44" :> 60 @@ "33" :> 54 @@
    "22" :> 48 @@ "AKs" :> 97 @@ "AQs" :> 94 @@ "AJs" :> 91 @@ "ATs" :> 87 @@ "A9s" :> 79 @@
    "A8s" :> 75 @@ "A7s" :> 73 @@ "A6s" :> 70 @@ "A5s" :> 74 @@ "A4s" :> 71 @@ "A3s" :> 68 @@
    "A2s" :> 65 @@ "KQs" :> 92 @@ "KJs" :> 89 @@ "KTs" :> 85 @@ "K9s" :> 77 @@ "K8s" :> 69 @@
    "K7s" :> 64 @@ "K6s" :> 62 @@ "K5s" :> 58 @@ "K4s" :> 55 @@ "K3s" :> 52 @@ "K2s" :> 49 @@
    "QJs" :> 90 @@ "QTs" :> 86 @@ "Q9s" :> 76 @@ "Q8s" :> 67 @@ "Q7s" :> 59 @@ "Q6s" :> 57 @@
    "Q5s" :> 53 @@ "Q4s" :> 50 @@ "Q3s" :> 47 @@ "Q2s" :> 44 @@ "JTs" :> 88 @@ "J9s" :> 80 @@
    "J8s" :> 71 @@ "J7s" :> 61 @@ "J6s" :> 56 @@ "J5s" :> 51 @@ "J4s" :> 46 @@ "J3s" :> 42 @@
    "J2s" :> 38 @@ "T9s" :> 82 @@ "T8s" :> 74 @@ "T7s" :> 63 @@ "T6s" :> 55 @@ "T5s" :> 47 @@
    "T4s" :> 43 @@ "T3s" :> 39 @@ "T2s" :> 35 @@ "98s" :> 81 @@ "97s" :> 72 @@ "96s" :> 60 @@
    "95s" :> 52 @@ "94s" :> 44 @@ "93s" :> 40 @@ "92s" :> 36 @@ "87s" :> 78 @@ "86s" :> 68 @@
    "85s" :> 57 @@ "84s" :> 48 @@ "83s" :> 41 @@ "82s" :> 37 @@ "76s" :> 75 @@ "75s" :> 64 @@
    "74s" :> 53 @@ "73s" :> 45 @@ "72s" :> 38 @@ "65s" :> 73 @@ "64s" :> 61 @@ "63s" :> 50 @@
    "62s" :> 43 @@ "54s" :> 70 @@ "53s" :> 58 @@ "52s" :> 49 @@ "43s" :> 56 @@ "42s" :> 46 @@
    "32s" :> 51 @@ "AKo" :> 95 @@ "AQo" :> 90 @@ "AJo" :> 86 @@ "ATo" :> 82 @@ "A9o" :> 73 @@
    "A8o" :> 69 @@ "A7o" :> 66 @@ "A6o" :> 63 @@ "A5o" :> 67 @@ "A4o" :> 62 @@ "A3o" :> 59 @@
    "A2o" :> 56 @@ "KQo" :> 87 @@ "KJo" :> 83 @@ "KTo" :> 79 @@ "K9o" :> 70 @@ "K8o" :> 61 @@
    "K7o" :> 55 @@ "K6o" :> 52 @@ "K5o" :> 48 @@ "K4o" :> 44 @@ "K3o" :> 40 @@ "K2o" :> 37 @@
    "QJo" :> 84 @@ "QTo" :> 80 @@ "Q9o" :> 68 @@ "Q8o" :> 58 @@ "Q7o" :> 50 @@ "Q6o" :> 46 @@
    "Q5o" :> 42 @@ "Q4o" :> 38 @@ "Q3o" :> 34 @@ "Q2o" :> 30 @@ "JTo" :> 81 @@ "J9o" :> 71 @@
    "J8o" :> 60 @@ "J7o" :> 51 @@ "J6o" :> 45 @@ "J5o" :> 41 @@ "J4o" :> 36 @@ "J3o" :> 32 @@
    "J2o" :> 28 @@ "T9o" :> 76 @@ "T8o" :> 65 @@ "T7o" :> 54 @@ "T6o" :> 47 @@ "T5o" :> 39 @@
    "T4o" :> 35 @@ "T3o" :> 31 @@ "T2o" :> 27 @@ "98o" :> 74 @@ "97o" :> 63 @@ "96o" :> 53 @@
    "95o" :> 43 @@ "94o" :> 36 @@ "93o" :> 33 @@ "92o" :> 29 @@ "87o" :> 70 @@ "86o" :> 59 @@
    "85o" :> 49 @@ "84o" :> 40 @@ "83o" :> 34 @@ "82o" :> 31 @@ "76o" :> 67 @@ "75o" :> 57 @@
    "74o" :> 46 @@ "73o" :> 38 @@ "72o" :> 32 @@ "65o" :> 64 @@ "64o" :> 52 @@ "63o" :> 44 @@
    "62o" :> 37 @@ "54o" :> 61 @@ "53o" :> 50 @@ "52o" :> 42 @@ "43o" :> 48 @@ "42o" :> 41 @@
    "32o" :> 45

\* the property names an object literal inherits from Object.prototype
ObjectPrototypeKeys ==
    {"constructor", "toString", "toLocaleString", "valueOf", "hasOwnProperty",
     "isPrototypeOf", "propertyIsEnumerable", "__proto__", "__defineGetter__",
     "__defineSetter__", "__lookupGetter__", "__lookupSetter__"}

\* stands for a value that is not a number (an inherited member of the table object)
NotANumber == -1

\* HAND_STRENGTH[hand] ?? 30: the own entry of the table; failing that the
\* member inherited under that name, which is not nullish; failing that 30
getHandStrength(hand) ==
    IF hand \in DOMAIN HAND_STRENGTH THEN HAND_STRENGTH[hand]
    ELSE IF hand \in ObjectPrototypeKeys THEN NotANumber
    ELSE 30

\* hand.endsWith("s")
endsWithS(hand) ==
    \E i \in 1..Len(RANK_ORDER), j \in 1..Len(RANK_ORDER) :
        hand = RANK_ORDER[i] \o RANK_ORDER[j] \o "s"

(***************************************************************************)
(* helpers/gto-preflop.ts : threshold tables                               *)
(***************************************************************************)
RFI_THRESHOLDS ==
    "UTG" :> 82 @@ "UTG+1" :> 80 @@ "MP" :> 78 @@ "LJ" :> 75 @@
    "HJ" :> 73 @@ "CO" :> 68 @@ "BU" :> 52 @@ "SB" :> 55

THREE_BET_VALUE_THRESHOLDS ==
    "vs_UTG" :> 96 @@ "vs_MP" :> 94 @@ "vs_CO" :> 92 @@ "vs_BU" :> 88 @@ "vs_SB" :> 85

THREE_BET_BLUFFS ==
    <<"A5s", "A4s", "A3s", "A2s", "76s", "65s", "54s", "K5s", "K4s", "J9s", "T9s">>

CALL_VS_OPEN_THRESHOLDS == "IP" :> 65 @@ "OOP" :> 72 @@ "BB" :> 55

FACING_3BET_4BET_THRESHOLD == 96
FACING_3BET_CALL_IP == 85
FACING_3BET_CALL_OOP == 90
SHORT_STACK_SHOVE_THRESHOLD == 65

NASH_SHOVE_RANGES ==
    "10" :> ("UTG" :> 78 @@ "UTG+1" :> 76 @@ "MP" :> 74 @@ "LJ" :> 72 @@ "HJ" :> 70 @@
             "CO" :> 62 @@ "BU" :> 50 @@ "SB" :> 48 @@ "BB" :> 55) @@
    "15" :> ("UTG" :> 82 @@ "UTG+1" :> 80 @@ "MP" :> 78 @@ "LJ" :> 76 @@ "HJ" :> 74 @@
             "CO" :> 68 @@ "BU" :> 58 @@ "SB" :> 55 @@ "BB" :> 62) @@
    "20" :> ("UTG" :> 85 @@ "UTG+1" :> 83 @@ "MP" :> 82 @@ "LJ" :> 80 @@ "HJ" :> 78 @@
             "CO" :> 72 @@ "BU" :> 65 @@ "SB" :> 62 @@ "BB" :> 68)

NASH_CALL_VS_SHOVE ==
    "10" :> ("UTG" :> 88 @@ "UTG+1" :> 87 @@ "MP" :> 86 @@ "LJ" :> 85 @@ "HJ" :> 84 @@
             "CO" :> 80 @@ "BU" :> 75 @@ "SB" :> 72 @@ "BB" :> 68) @@
    "15" :> ("UTG" :> 90 @@ "UTG+1" :> 89 @@ "MP" :> 88 @@ "LJ" :> 87 @@ "HJ" :> 86 @@
             "CO" :> 83 @@ "BU" :> 78 @@ "SB" :> 75 @@ "BB" :> 72) @@
    "20" :> ("UTG" :> 92 @@ "UTG+1" :> 91 @@ "MP" :> 90 @@ "LJ" :> 89 @@ "HJ" :> 88 @@
             "CO" :> 85 @@ "BU" :> 82 @@ "SB" :> 80 @@ "BB" :> 76)

BB_DEFENSE_THRESHOLDS ==
    "vs_UTG" :> 70 @@ "vs_UTG+1" :> 68 @@ "vs_MP" :> 65 @@ "vs_LJ" :> 62 @@
    "vs_HJ" :> 60 @@ "vs_CO" :> 55 @@ "vs_BU" :> 48 @@ "vs_SB" :> 45

BB_CHECK_RAISE_THRESHOLD == 88

(***************************************************************************)
(* helpers/gto-preflop.ts : context detection                              *)
(***************************************************************************)
\* mutant of getMultiwayAdjustment: one penalty of 5 however many extra players
getMultiwayAdjustment_Flat(playersInPot) ==
    IF playersInPot <= 2 THEN 0 ELSE 5

getMultiwayAdjustment(playersInPot) ==
    IF playersInPot <= 2 THEN 0 ELSE (playersInPot - 2) * 5

\* the loop of analyzePreflopContext over playerActions[i..], st the locals so far
RECURSIVE scanActions(_, _, _, _, _)
scanActions(playerActions, i, heroId, positionMap, st) ==
    IF i > Len(playerActions) THEN st
    ELSE
    LET action == playerActions[i]
        next ==
            IF action.playerId = heroId THEN [st EXCEPT !.heroActed = TRUE]
            ELSE IF action.action = "raises" \/ action.action = "bets" THEN
                [st EXCEPT !.numRaises = st.numRaises + 1,
                           !.openRaiserPosition =
                               IF st.numRaises + 1 = 1
                               THEN Lookup(positionMap, action.playerId, "")
                               ELSE st.openRaiserPosition,
                           !.lastRaiseSize = action.betAmount,
                           !.potSize = st.potSize + action.betAmount]
            ELSE IF action.action = "calls" THEN
                [st EXCEPT !.potSize = st.potSize + action.betAmount,
                           !.playersInPot = st.playersInPot + 1,
                           !.facingLimp = IF st.numRaises = 0 THEN TRUE ELSE st.facingLimp]
            ELSE st
    IN  scanActions(playerActions, i + 1, heroId, positionMap, next)

\* mutant of analyzePreflopContext: facingLimp is reported although a raise followed
analyzePreflopContext_LimpSticky(playerActions, heroId, heroPosition, positionMap) ==
    LET st == scanActions(playerActions, 1, heroId, positionMap,
                  [numRaises |-> 0, openRaiserPosition |-> "", lastRaiseSize |-> 0,
                   potSize |-> 150, heroActed |-> FALSE, facingLimp |-> FALSE,
                   playersInPot |-> 2])
        posOrder == <<"SB", "BB", "UTG", "UTG+1", "MP", "LJ", "HJ", "CO", "BU">>
        heroIdx == IndexOf(posOrder, heroPosition)
        aggressorIdx == IndexOf(posOrder, st.openRaiserPosition)
    IN  [isRFI |-> st.numRaises = 0 /\ ~st.facingLimp,
         facingOpen |-> st.numRaises = 1 /\ ~st.heroActed,
         facing3Bet |-> st.numRaises = 2 /\ st.heroActed,
         facing4Bet |-> st.numRaises >= 3 /\ st.heroActed,
         facingLimp |-> st.facingLimp,
         numRaises |-> st.numRaises,
         openRaiserPosition |-> st.openRaiserPosition,
         lastRaiseSize |-> st.lastRaiseSize,
         potSize |-> st.potSize,
         isInPosition |-> heroIdx > aggressorIdx,
         playersInPot |-> st.playersInPot]

analyzePreflopContext(playerActions, heroId, heroPosition, positionMap) ==
    LET st == scanActions(playerActions, 1, heroId, positionMap,
                  [numRaises |-> 0, openRaiserPosition |-> "", lastRaiseSize |-> 0,
                   potSize |-> 150, heroActed |-> FALSE, facingLimp |-> FALSE,
                   playersInPot |-> 2])
        posOrder == <<"SB", "BB", "UTG", "UTG+1", "MP", "LJ", "HJ", "CO", "BU">>
        heroIdx == IndexOf(posOrder, heroPosition)
        aggressorIdx == IndexOf(posOrder, st.openRaiserPosition)
    IN  [isRFI |-> st.numRaises = 0 /\ ~st.facingLimp,
         facingOpen |-> st.numRaises = 1 /\ ~st.heroActed,
         facing3Bet |-> st.numRaises = 2 /\ st.heroActed,
         facing4Bet |-> st.numRaises >= 3 /\ st.heroActed,
         facingLimp |-> st.facingLimp /\ st.numRaises = 0,
         numRaises |-> st.numRaises,
         openRaiserPosition |-> st.openRaiserPosition,
         lastRaiseSize |-> st.lastRaiseSize,
         potSize |-> st.potSize,
         isInPosition |-> heroIdx > aggressorIdx,
         playersInPot |-> st.playersInPot]

(***************************************************************************)
(* helpers/gto-preflop.ts : exploitation adjustments                       *)
(***************************************************************************)
ExploitDefaults ==
    [rfiAdjust |-> 0, threeBetAdjust |-> 0, callAdjust |-> 0,
     bluffMore |-> FALSE, valueWider |-> FALSE]

getExploitAdjustment(stats) ==
    IF stats = << >> \/ getTotalHands(stats[1]) < 8 THEN ExploitDefaults
    ELSE
    LET s == stats[1]
        vpip == computeVPIPStat(s)
        pfr == computePFRStat(s)
        af == computeAggressionFactor(s)
        threeBet == compute3BetStat(s)
        adj1 ==
            IF QLt(vpip, Q(18, 1))
            THEN [ExploitDefaults EXCEPT !.rfiAdjust = -8, !.bluffMore = TRUE,
                                         !.threeBetAdjust = 5]
            ELSE IF QGt(vpip, Q(35, 1)) /\ QLt(pfr, Q(12, 1))
            THEN [ExploitDefaults EXCEPT !.valueWider = TRUE, !.bluffMore = FALSE,
                                         !.callAdjust = -5, !.threeBetAdjust = -5]
            ELSE IF QGt(vpip, Q(30, 1)) /\ QGt(pfr, Q(22, 1))
            THEN [ExploitDefaults EXCEPT !.threeBetAdjust = -8, !.callAdjust = -5]
            ELSE IF QGe(vpip, Q(18, 1)) /\ QLe(vpip, Q(25, 1))
                    /\ QGe(pfr, Q(15, 1)) /\ QLe(pfr, Q(22, 1))
            THEN ExploitDefaults
            ELSE IF QGt(vpip, Q(30, 1)) /\ QLt(af, Q(3, 2))
            THEN [ExploitDefaults EXCEPT !.valueWider = TRUE, !.bluffMore = FALSE]
            ELSE ExploitDefaults
        adj2 ==
            IF QGt(threeBet, Q(10, 1)) /\ get3BetOpportunities(s) >= 5
            THEN [adj1 EXCEPT !.threeBetAdjust = 5]
            ELSE adj1
    IN  IF QGt(af, Q(3, 1)) THEN [adj2 EXCEPT !.callAdjust = -8] ELSE adj2

(***************************************************************************)
(* helpers/gto-preflop.ts : decision engine                                *)
(* rnd is the sequence of values the successive Math.random() calls        *)
(* return, in hundredths.                                                  *)
(***************************************************************************)
Decision(a, sz, conf, why) ==
    [action |-> a, sizingBBs |-> sz, confidence |-> conf, reasoning |-> why]

includes(seq, x) == \E i \in 1..Len(seq) : seq[i] = x

\* mutant of stackBucketOf: the 10-BB bucket ends below 12 BB
stackBucketOf_Strict(stackBBs) ==
    IF stackBBs < 1200 THEN "10" ELSE IF stackBBs <= 1700 THEN "15" ELSE "20"

\* the stack bucket of the Nash tables
stackBucketOf(stackBBs) ==
    IF stackBBs <= 1200 THEN "10" ELSE IF stackBBs <= 1700 THEN "15" ELSE "20"

getShortStackAction(hand, strength, position, stackBBs, context) ==
    LET stackBucket == stackBucketOf(stackBBs)
    IN
    IF context.isRFI THEN
        LET nashRanges == NASH_SHOVE_RANGES[stackBucket]
            threshold == Lookup(nashRanges, position, SHORT_STACK_SHOVE_THRESHOLD)
        IN  IF stackBucket = "20" /\ strength >= threshold + 10
            THEN Decision("raise", 250, 90, "Short stack open-raise (20 BB)")
            ELSE IF strength >= threshold
            THEN Decision("all-in", stackBBs, 95, "Nash shove")
            ELSE Decision("fold", 0, 90, "Nash fold")
    ELSE IF context.facingOpen THEN
        LET nashCallRanges == NASH_CALL_VS_SHOVE[stackBucket]
            t0 == Lookup(nashCallRanges, position, 75)
            t1 == IF context.isInPosition THEN t0 - 3 ELSE t0
            threshold == t1 + getMultiwayAdjustment(context.playersInPot)
        IN  IF strength >= threshold
            THEN Decision("all-in", stackBBs, 90, "Nash reshove")
            ELSE Decision("fold", 0, 85, "Nash fold vs open")
    ELSE Decision("fold", 0, 70, "Short stack default fold")

\* mutant of openSizing: the small-blind sizing is applied from every position
openSizing_AlwaysSB(position, context) == 300

\* the open-raise sizing: 2.5 BB, one more per limper, 3.0 BB from the small blind
openSizing(position, context) ==
    LET s0 == IF context.facingLimp
              THEN 350 + (context.playersInPot - 2) * 100 ELSE 250
    IN  IF position = "SB" THEN 300 ELSE s0

getRFIAction(hand, strength, position, stackBBs, context, exploit) ==
    LET t0 == Lookup(RFI_THRESHOLDS, position, 75) + exploit.rfiAdjust
        t1 == t0 + getMultiwayAdjustment(context.playersInPot)
        threshold == IF context.facingLimp /\ context.playersInPot <= 3
                     THEN t1 - 5 ELSE t1
    IN
    IF strength >= threshold
    THEN Decision("raise", openSizing(position, context), 90, "GTO open")
    ELSE IF position = "SB" /\ strength >= 45 /\ endsWithS(hand)
    THEN Decision("call", 50, 60, "SB complete with suited hand")
    ELSE Decision("fold", 0, 85, "GTO fold")

\* lastRaiseSize * 3 in position, lastRaiseSize * 3.5 out of position
ThreeBetSizing(context) ==
    IF context.isInPosition THEN context.lastRaiseSize * 3
    ELSE (context.lastRaiseSize * 7) \div 2

getBBDefenseAction(hand, strength, context, exploit, rnd) ==
    LET openerPos == context.openRaiserPosition
        vsKey == "vs_" \o openerPos
        defenseThreshold == Lookup(BB_DEFENSE_THRESHOLDS, vsKey, 60) + exploit.callAdjust
        checkRaiseThreshold == BB_CHECK_RAISE_THRESHOLD + exploit.threeBetAdjust
        sizing == (context.lastRaiseSize * 7) \div 2
    IN
    IF strength >= checkRaiseThreshold
    THEN Decision("raise", Max(sizing, 700), 85, "BB 3-bet for value")
    ELSE IF includes(THREE_BET_BLUFFS, hand) /\ context.playersInPot <= 3 /\ rnd[1] < 35
    THEN Decision("raise", Max(sizing, 700), 70, "BB 3-bet bluff")
    ELSE IF strength >= defenseThreshold
    THEN Decision("call", context.lastRaiseSize - 100, 80, "BB defense call")
    ELSE Decision("fold", 0, 80, "BB fold")

getFacingOpenAction(hand, strength, position, stackBBs, context, exploit, rnd) ==
    LET openerPos == context.openRaiserPosition
        vsKey == "vs_" \o openerPos
        mwAdj == getMultiwayAdjustment(context.playersInPot)
        threeBetThreshold ==
            Lookup(THREE_BET_VALUE_THRESHOLDS, vsKey, 92) + exploit.threeBetAdjust + mwAdj
        bluffSpot == includes(THREE_BET_BLUFFS, hand) /\ ~exploit.valueWider
                        /\ context.playersInPot <= 3
        \* the draws left for the callee: one is consumed in a bluff spot
        rest == IF bluffSpot THEN Tail(rnd) ELSE rnd
        callThreshold ==
            (IF context.isInPosition THEN CALL_VS_OPEN_THRESHOLDS["IP"]
             ELSE CALL_VS_OPEN_THRESHOLDS["OOP"]) + exploit.callAdjust + mwAdj
    IN
    IF strength >= threeBetThreshold THEN
        LET s0 == ThreeBetSizing(context)
            sizing == IF context.playersInPot > 2
                      THEN s0 + (context.playersInPot - 2) * 150 ELSE s0
        IN  Decision("raise", Max(sizing, 700), 90, "GTO 3-bet value")
    ELSE IF bluffSpot /\ rnd[1] < 40
    THEN Decision("raise", Max(ThreeBetSizing(context), 700), 75, "GTO 3-bet bluff")
    ELSE IF position = "BB"
    THEN getBBDefenseAction(hand, strength, context, exploit, rest)
    ELSE IF strength >= callThreshold
    THEN Decision("call", context.lastRaiseSize, 85, "GTO flat call")
    ELSE Decision("fold", 0, 85, "GTO fold vs open")

getFacing3BetAction(hand, strength, position, stackBBs, context, exploit, rnd) ==
    LET sizing == (context.lastRaiseSize * 5) \div 2
        callThreshold == IF context.isInPosition THEN FACING_3BET_CALL_IP
                         ELSE FACING_3BET_CALL_OOP
    IN
    IF strength >= FACING_3BET_4BET_THRESHOLD
    THEN Decision("raise", Min(sizing, stackBBs), 95, "GTO 4-bet")
    ELSE IF (hand = "A5s" \/ hand = "A4s") /\ rnd[1] < 30
    THEN Decision("raise", Min(sizing, stackBBs), 65, "GTO 4-bet bluff")
    ELSE IF strength >= callThreshold
    THEN Decision("call", context.lastRaiseSize, 85, "GTO call 3-bet")
    ELSE Decision("fold", 0, 90, "GTO fold to 3-bet")

getFacing4BetAction(hand, strength, stackBBs) ==
    IF strength >= 99 THEN Decision("all-in", stackBBs, 98, "GTO 5-bet shove")
    ELSE IF strength >= 96 THEN Decision("call", 0, 80, "GTO call 4-bet")
    ELSE Decision("fold", 0, 92, "GTO fold to 4-bet")

\* mutant of getGTOPreflopAction: the first-in branch is tried before the
\* short-stack override
getGTOPreflopAction_RFIFirst(card1, card2, heroPosition, stackSizeBBs, context, opponentStats, rnd) ==
    LET hand == normalizeHand(card1, card2)
        strength == getHandStrength(hand)
        exploit == getExploitAdjustment(opponentStats)
    IN
    IF context.isRFI \/ context.facingLimp
    THEN getRFIAction(hand, strength, heroPosition, stackSizeBBs, context, exploit)
    ELSE IF stackSizeBBs < 2500
    THEN getShortStackAction(hand, strength, heroPosition, stackSizeBBs, context)
    ELSE IF context.facingOpen
    THEN getFacingOpenAction(hand, strength, heroPosition, stackSizeBBs, context, exploit, rnd)
    ELSE IF context.facing3Bet
    THEN getFacing3BetAction(hand, strength, heroPosition, stackSizeBBs, context, exploit, rnd)
    ELSE IF context.facing4Bet
    THEN getFacing4BetAction(hand, strength, stackSizeBBs)
    ELSE Decision("", 0, 0, "Unknown preflop context, deferring to AI.")

\* mutant of getGTOPreflopAction: the facing-4-bet branch is missing
getGTOPreflopAction_No4Bet(card1, card2, heroPosition, stackSizeBBs, context, opponentStats, rnd) ==
    LET hand == normalizeHand(card1, card2)
        strength == getHandStrength(hand)
        exploit == getExploitAdjustment(opponentStats)
    IN
    IF stackSizeBBs < 2500
    THEN getShortStackAction(hand, strength, heroPosition, stackSizeBBs, context)
    ELSE IF context.isRFI \/ context.facingLimp
    THEN getRFIAction(hand, strength, heroPosition, stackSizeBBs, context, exploit)
    ELSE IF context.facingOpen
    THEN getFacingOpenAction(hand, strength, heroPosition, stackSizeBBs, context, exploit, rnd)
    ELSE IF context.facing3Bet
    THEN getFacing3BetAction(hand, strength, heroPosition, stackSizeBBs, context, exploit, rnd)
    ELSE Decision("", 0, 0, "Unknown preflop context, deferring to AI.")

getGTOPreflopAction(card1, card2, heroPosition, stackSizeBBs, context, opponentStats, rnd) ==
    LET hand == normalizeHand(card1, card2)
        strength == getHandStrength(hand)
        exploit == getExploitAdjustment(opponentStats)
    IN
    IF stackSizeBBs < 2500
    THEN getShortStackAction(hand, strength, heroPosition, stackSizeBBs, context)
    ELSE IF context.isRFI \/ context.facingLimp
    THEN getRFIAction(hand, strength, heroPosition, stackSizeBBs, context, exploit)
    ELSE IF context.facingOpen
    THEN getFacingOpenAction(hand, strength, heroPosition, stackSizeBBs, context, exploit, rnd)
    ELSE IF context.facing3Bet
    THEN getFacing3BetAction(hand, strength, heroPosition, stackSizeBBs, context, exploit, rnd)
    ELSE IF context.facing4Bet
    THEN getFacing4BetAction(hand, strength, stackSizeBBs)
    ELSE Decision("", 0, 0, "Unknown preflop context, deferring to AI.")

(***************************************************************************)
(* helpers/postflop-engine.ts                                              *)
(*                                                                         *)
(* The engine computes in floating point; the model computes the same      *)
(* expressions exactly.  Amounts are in hundredths of a big blind, equity  *)
(* in percent, fold equity in units of 10^-7, so an EV is an integer in    *)
(* units of 10^-11 BB.  Such integers exceed 32 bits: a wide integer       *)
(* <<hi, lo>> stands for hi * 10^6 + lo with 0 <= lo < 10^6.               *)
(***************************************************************************)
WBase == 1000000

WNorm(hi, lo) == <<hi + (lo \div WBase), lo % WBase>>
WInt(x) == WNorm(0, x)
WAdd(a, b) == WNorm(a[1] + b[1], a[2] + b[2])
WSub(a, b) == WNorm(a[1] - b[1], a[2] - b[2])
WLt(a, b) == a[1] < b[1] \/ (a[1] = b[1] /\ a[2] < b[2])
WLe(a, b) == ~WLt(b, a)
WMax(a, b) == IF WLt(a, b) THEN b ELSE a
WMin(a, b) == IF WLt(b, a) THEN b ELSE a

\* the exact product of two integers, by limbs of three decimal digits
WMul(x, y) ==
    LET x0 == x % 1000
        x1 == (x \div 1000) % 1000
        x2 == x \div 1000000
        y0 == y % 1000
        y1 == (y \div 1000) % 1000
        y2 == y \div 1000000
        t1 == x0 * y1 + x1 * y0
    IN  WNorm((t1 \div 1000) + (x0 * y2 + x1 * y1 + x2 * y0)
                  + (x1 * y2 + x2 * y1) * 1000 + x2 * y2 * 1000000,
              (t1 % 1000) * 1000 + x0 * y0)

\* BB amounts in 10^-4 (equity percent times hundredths) scaled to EV units
EVOf(x4) == WNorm(x4 * 10, 0)

FEOne == 10000000

\* estimateFoldEquity, in units of 10^-7; the bet size as a fraction <<n, d>> of the pot
estimateFoldEquity(stats, betSizePotFraction, street) ==
    LET baseFoldFreq ==
            IF stats # << >> /\ getTotalHands(stats[1]) >= 8 THEN
                LET vpip == computeVPIPStat(stats[1])
                    pfr == computePFRStat(stats[1])
                    af == computeAggressionFactor(stats[1])
                IN  IF QLt(vpip, Q(18, 1)) THEN 65
                    ELSE IF QGt(vpip, Q(35, 1)) /\ QLt(pfr, Q(12, 1)) THEN 25
                    ELSE IF QGe(vpip, Q(18, 1)) /\ QLe(vpip, Q(25, 1))
                            /\ QGe(pfr, Q(15, 1)) /\ QLe(pfr, Q(22, 1)) THEN 50
                    ELSE IF QGt(vpip, Q(30, 1)) /\ QGt(pfr, Q(22, 1)) THEN 40
                    ELSE IF QGt(vpip, Q(30, 1)) /\ QLt(af, Q(3, 2)) THEN 30
                    ELSE 45
            ELSE 45
        \* 0.8 + fraction * 0.4, in thousandths
        sizingMultiplier ==
            800 + (400 * betSizePotFraction[1]) \div betSizePotFraction[2]
        \* in hundredths
        streetMultiplier ==
            IF street = "river" THEN 110 ELSE IF street = "turn" THEN 105 ELSE 100
    IN  Min(Max(baseFoldFreq * sizingMultiplier * streetMultiplier, 500000), 8500000)

\* foldEV + callEV with callPot = pot + 2 * bet
calculateBetEV(potBBs, betBBs, equity, foldEquity) ==
    LET foldEV == WMul(foldEquity, potBBs * 100)
        callPot == potBBs + betBBs * 2
        callEV == WMul(FEOne - foldEquity, equity * callPot - (100 - equity) * betBBs)
    IN  WAdd(foldEV, callEV)

calculateCallEV(potBBs, callBBs, equity) ==
    LET totalPot == potBBs + callBBs
    IN  EVOf(equity * totalPot - (100 - equity) * callBBs)

calculateCheckEV(potBBs, equity) == EVOf(equity * potBBs)

calculateRaiseEV(potBBs, raiseBBs, callBBs, equity, foldEquity) ==
    LET foldEV == WMul(foldEquity, potBBs * 100)
        callPot == potBBs + raiseBBs + raiseBBs
        callEV == WMul(FEOne - foldEquity, equity * callPot - (100 - equity) * raiseBBs)
    IN  WAdd(foldEV, callEV)

\* in hundredths
BET_SIZE_FRACTIONS == <<33, 50, 75, 100, 150>>

ActionEV(a, sz, ev) == [action |-> a, sizingBBs |-> sz, ev |-> ev]

\* mutant of insertByEV: the comparator is a.ev - b.ev, the sort ascending
RECURSIVE insertByEV_Ascending(_, _)
insertByEV_Ascending(sorted, x) ==
    IF sorted = << >> THEN <<x>>
    ELSE IF WLt(x.ev, Head(sorted).ev) THEN <<x>> \o sorted
    ELSE <<Head(sorted)>> \o insertByEV_Ascending(Tail(sorted), x)

\* allEVs.sort((a, b) => b.ev - a.ev): a stable sort by EV, descending
RECURSIVE insertByEV(_, _)
insertByEV(sorted, x) ==
    IF sorted = << >> THEN <<x>>
    ELSE IF WLt(Head(sorted).ev, x.ev) THEN <<x>> \o sorted
    ELSE <<Head(sorted)>> \o insertByEV(Tail(sorted), x)

RECURSIVE sortByEV(_, _)
sortByEV(sorted, todo) ==
    IF todo = << >> THEN sorted
    ELSE sortByEV(insertByEV(sorted, Head(todo)), Tail(todo))

\* mutant of sizedCandidate: a raise beyond the stack is clipped to the stack
sizedCandidate_Clipped(fraction, equity, potBBs, stackBBs, street, facingBet, betToCallBBs, opponentStats) ==
    LET betBBs == Min((potBBs * fraction) \div 100, stackBBs)
        foldEq == estimateFoldEquity(opponentStats, <<fraction, 100>>, street)
        raiseSize == Min(betToCallBBs + betBBs, stackBBs)
    IN  IF betBBs <= 0 THEN << >>
        ELSE IF betBBs > stackBBs THEN << >>
        ELSE IF facingBet THEN
            <<ActionEV("raise", raiseSize,
                calculateRaiseEV(potBBs, raiseSize, betToCallBBs, equity, foldEq))>>
        ELSE <<ActionEV("bet", betBBs, calculateBetEV(potBBs, betBBs, equity, foldEq))>>

\* the candidates pushed by one iteration of the loop over BET_SIZE_FRACTIONS
sizedCandidate(fraction, equity, potBBs, stackBBs, street, facingBet, betToCallBBs, opponentStats) ==
    LET betBBs == Min((potBBs * fraction) \div 100, stackBBs)
        foldEq == estimateFoldEquity(opponentStats, <<fraction, 100>>, street)
        raiseSize == betToCallBBs + betBBs
    IN  IF betBBs <= 0 THEN << >>
        ELSE IF betBBs > stackBBs THEN << >>
        ELSE IF facingBet THEN
            IF raiseSize > stackBBs THEN << >>
            ELSE <<ActionEV("raise", raiseSize,
                     calculateRaiseEV(potBBs, raiseSize, betToCallBBs, equity, foldEq))>>
        ELSE <<ActionEV("bet", betBBs, calculateBetEV(potBBs, betBBs, equity, foldEq))>>

\* mutant of allInCandidate: a stack of exactly two pots is left out
allInCandidate_Strict(equity, potBBs, stackBBs, street, facingBet, betToCallBBs, opponentStats) ==
    IF stackBBs < potBBs * 2 THEN
        LET foldEq == estimateFoldEquity(opponentStats, <<stackBBs, Max(potBBs, 10)>>, street)
        IN  IF facingBet
            THEN <<ActionEV("all-in", stackBBs,
                     calculateRaiseEV(potBBs, stackBBs, betToCallBBs, equity, foldEq))>>
            ELSE <<ActionEV("all-in", stackBBs,
                     calculateBetEV(potBBs, stackBBs, equity, foldEq))>>
    ELSE << >>

\* the all-in candidate
allInCandidate(equity, potBBs, stackBBs, street, facingBet, betToCallBBs, opponentStats) ==
    IF stackBBs <= potBBs * 2 THEN
        LET foldEq == estimateFoldEquity(opponentStats, <<stackBBs, Max(potBBs, 10)>>, street)
        IN  IF facingBet
            THEN <<ActionEV("all-in", stackBBs,
                     calculateRaiseEV(potBBs, stackBBs, betToCallBBs, equity, foldEq))>>
            ELSE <<ActionEV("all-in", stackBBs,
                     calculateBetEV(potBBs, stackBBs, equity, foldEq))>>
    ELSE << >>

\* allEVs as enumerated, before the sort
enumerateActions(equity, potBBs, stackBBs, street, facingBet, betToCallBBs, opponentStats, canCheck, canBet) ==
    LET foldC == IF facingBet THEN <<ActionEV("fold", 0, WInt(0))>> ELSE << >>
        checkC == IF canCheck /\ ~facingBet
                  THEN <<ActionEV("check", 0, calculateCheckEV(potBBs, equity))>>
                  ELSE << >>
        callC == IF facingBet /\ betToCallBBs > 0
                 THEN <<ActionEV("call", betToCallBBs,
                          calculateCallEV(potBBs, betToCallBBs, equity))>>
                 ELSE << >>
        sized(i) == sizedCandidate(BET_SIZE_FRACTIONS[i], equity, potBBs, stackBBs, street,
                                   facingBet, betToCallBBs, opponentStats)
        betC == IF canBet
                THEN sized(1) \o sized(2) \o sized(3) \o sized(4) \o sized(5)
                     \o allInCandidate(equity, potBBs, stackBBs, street, facingBet,
                                       betToCallBBs, opponentStats)
                ELSE << >>
    IN  foldC \o checkC \o callC \o betC

\* 0.3, 2.85 and 5 BB in EV units: the confidence is kept multiplied by 3
GapLow == WNorm(30000, 0)
GapHigh == WNorm(285000, 0)
GapAlone == WNorm(500000, 0)

PostflopDecision(a, sz, ev, conf) ==
    [action |-> a, sizingBBs |-> sz, evBBs |-> ev, confidence |-> conf]

\* mutant of decide: the gap is taken to the last candidate, not to the runner-up
decide_GapToLast(allEVs) ==
    IF Len(allEVs) = 0 THEN PostflopDecision("check", 0, WInt(0), WInt(0))
    ELSE
    LET best == allEVs[1]
        evGap == IF Len(allEVs) > 1 THEN WSub(best.ev, allEVs[Len(allEVs)].ev) ELSE GapAlone
        confidence == WMin(WMax(evGap, GapLow), GapHigh)
    IN  PostflopDecision(best.action, best.sizingBBs, best.ev, confidence)

\* the decision taken from the sorted candidates; confidence in units of 1/3 * 10^-11
decide(allEVs) ==
    IF Len(allEVs) = 0 THEN PostflopDecision("check", 0, WInt(0), WInt(0))
    ELSE
    LET best == allEVs[1]
        evGap == IF Len(allEVs) > 1 THEN WSub(best.ev, allEVs[2].ev) ELSE GapAlone
        confidence == WMin(WMax(evGap, GapLow), GapHigh)
    IN  PostflopDecision(best.action, best.sizingBBs, best.ev, confidence)

getPostflopEVDecision(equity, potBBs, stackBBs, street, facingBet, betToCallBBs, opponentStats, canCheck, canBet) ==
    decide(sortByEV(<< >>, enumerateActions(equity, potBBs, stackBBs, street, facingBet,
                                            betToCallBBs, opponentStats, canCheck, canBet)))

(***************************************************************************)
(* helpers/range-tracker.ts                                                *)
(* A weight is an exact rational <<n, d>> in lowest terms, d > 0.          *)
(***************************************************************************)
RECURSIVE GCD(_, _)
GCD(a, b) == IF b = 0 THEN a ELSE GCD(b, a % b)

Abs(x) == IF x < 0 THEN -x ELSE x
RNorm(n, d) == LET g == GCD(Abs(n), d) IN <<n \div g, d \div g>>
RMul(a, b) == RNorm(a[1] * b[1], a[2] * b[2])
RAdd(a, b) == RNorm(a[1] * b[2] + b[1] * a[2], a[2] * b[2])
RSub(a, b) == RNorm(a[1] * b[2] - b[1] * a[2], a[2] * b[2])
RMin(a, b) == IF QLe(a, b) THEN a ELSE b
ROne == <<1, 1>>
RZero == <<0, 1>>

RANKS == <<"A", "K", "Q", "J", "T", "9", "8", "7", "6", "5", "4", "3", "2">>

\* the hands pushed by the inner loop of generateAllHands from index j on
RECURSIVE handsOfRow(_, _)
handsOfRow(i, j) ==
    IF j > Len(RANKS) THEN << >>
    ELSE (IF i = j THEN <<RANKS[i] \o RANKS[j]>>
          ELSE <<RANKS[i] \o RANKS[j] \o "s", RANKS[i] \o RANKS[j] \o "o">>)
         \o handsOfRow(i, j + 1)

\* the hands pushed by the outer loop from index i on
RECURSIVE handsFrom(_)
handsFrom(i) == IF i > Len(RANKS) THEN << >> ELSE handsOfRow(i, i) \o handsFrom(i + 1)

generateAllHands == handsFrom(1)

ALL_HANDS == generateAllHands

POSITION_OPEN_CUTOFFS ==
    "UTG" :> 82 @@ "UTG+1" :> 80 @@ "MP" :> 78 @@ "LJ" :> 75 @@ "HJ" :> 73 @@
    "CO" :> 68 @@ "BU" :> 52 @@ "SB" :> 55 @@ "BB" :> 40

THREE_BET_CUTOFFS ==
    "UTG" :> 96 @@ "UTG+1" :> 95 @@ "MP" :> 94 @@ "LJ" :> 93 @@ "HJ" :> 92 @@
    "CO" :> 90 @@ "BU" :> 88 @@ "SB" :> 85 @@ "BB" :> 85

FLAT_CALL_CUTOFFS == "IP" :> 65 @@ "OOP" :> 72 @@ "BB" :> 55

RangeAdjustment(o, t, c) ==
    [openWidenPercent |-> o, threeBetWidenPercent |-> t, callWidenPercent |-> c]

getPlayerTypeAdjustment(stats) ==
    IF stats = << >> \/ getTotalHands(stats[1]) < 8 THEN RangeAdjustment(0, 0, 0)
    ELSE
    LET vpip == computeVPIPStat(stats[1])
        pfr == computePFRStat(stats[1])
    IN  IF QLt(vpip, Q(18, 1)) THEN RangeAdjustment(8, 3, 5)
        ELSE IF QGt(vpip, Q(35, 1)) /\ QLt(pfr, Q(12, 1)) THEN RangeAdjustment(-5, 5, -20)
        ELSE IF QGt(vpip, Q(30, 1)) /\ QGt(pfr, Q(22, 1)) THEN RangeAdjustment(-15, -10, -8)
        ELSE IF QGt(vpip, Q(30, 1)) THEN RangeAdjustment(-10, 3, -15)
        ELSE RangeAdjustment(0, 0, 0)

WeightedHand(h, w) == [hand |-> h, weight |-> w]

\* range.map(wh => ({...wh, weight: wh.weight * factor(strength, hand)}))
\* with factors[i] the factor computed for the hand of entry i
scaleRange(range, factors) ==
    [i \in 1..Len(range) |-> [range[i] EXCEPT !.weight = RMul(@, factors[i])]]

\* mutant of createStartingRange: the cutoff itself is out of range
createStartingRange_Strict(position, stats) ==
    LET adj == getPlayerTypeAdjustment(stats)
        cutoff == Lookup(POSITION_OPEN_CUTOFFS, position, 70) + adj.openWidenPercent
    IN  [i \in 1..Len(ALL_HANDS) |->
            WeightedHand(ALL_HANDS[i],
                         IF getHandStrength(ALL_HANDS[i]) > cutoff THEN ROne ELSE RZero)]

createStartingRange(position, stats) ==
    LET adj == getPlayerTypeAdjustment(stats)
        cutoff == Lookup(POSITION_OPEN_CUTOFFS, position, 70) + adj.openWidenPercent
    IN  [i \in 1..Len(ALL_HANDS) |->
            WeightedHand(ALL_HANDS[i],
                         IF getHandStrength(ALL_HANDS[i]) >= cutoff THEN ROne ELSE RZero)]

createFullRange == [i \in 1..Len(ALL_HANDS) |-> WeightedHand(ALL_HANDS[i], ROne)]

\* mutant of narrowByOpenRaise: hands below the cutoff are dropped, not scaled
narrowByOpenRaise_Filter(range, position, stats) ==
    LET adj == getPlayerTypeAdjustment(stats)
        cutoff == Lookup(POSITION_OPEN_CUTOFFS, position, 70) + adj.openWidenPercent
    IN  SelectSeq(range, LAMBDA wh : getHandStrength(wh.hand) >= cutoff)

narrowByOpenRaise(range, position, stats) ==
    LET adj == getPlayerTypeAdjustment(stats)
        cutoff == Lookup(POSITION_OPEN_CUTOFFS, position, 70) + adj.openWidenPercent
        factor(strength, hand) == IF strength < cutoff THEN <<1, 20>> ELSE ROne
    IN  scaleRange(range, [i \in 1..Len(range) |->
                             factor(getHandStrength(range[i].hand), range[i].hand)])

narrowBy3Bet(range, position, stats) ==
    LET adj == getPlayerTypeAdjustment(stats)
        cutoff == Lookup(THREE_BET_CUTOFFS, position, 90) + adj.threeBetWidenPercent
        bluffHands == {"A5s", "A4s", "A3s", "A2s", "76s", "65s", "54s", "K5s", "K4s",
                       "J9s", "T9s"}
        factor(strength, hand) ==
            IF strength >= cutoff THEN ROne
            ELSE IF hand \in bluffHands THEN <<7, 20>>
            ELSE <<1, 50>>
    IN  scaleRange(range, [i \in 1..Len(range) |->
                             factor(getHandStrength(range[i].hand), range[i].hand)])

narrowByPreflopCall(range, position, isInPosition, stats) ==
    LET adj == getPlayerTypeAdjustment(stats)
        threeBetCutoff == Lookup(THREE_BET_CUTOFFS, position, 90) + adj.threeBetWidenPercent
        callPosition == IF position = "BB" THEN "BB"
                        ELSE IF isInPosition THEN "IP" ELSE "OOP"
        callCutoff == Lookup(FLAT_CALL_CUTOFFS, callPosition, 65) + adj.callWidenPercent
        factor(strength, hand) ==
            IF strength >= threeBetCutoff THEN <<3, 20>>
            ELSE IF strength < callCutoff THEN <<1, 20>>
            ELSE ROne
    IN  scaleRange(range, [i \in 1..Len(range) |->
                             factor(getHandStrength(range[i].hand), range[i].hand)])

\* betSizePotFraction is a rational <<n, d>>
narrowByPostflopBet(range, betSizePotFraction) ==
    LET polarizationFactor == RMin(RMul(betSizePotFraction, <<4, 3>>), <<3, 2>>)
        factor(strength, hand) ==
            IF strength >= 85 THEN RAdd(<<9, 10>>, RMul(polarizationFactor, <<1, 10>>))
            ELSE IF strength >= 70 THEN RSub(ROne, RMul(polarizationFactor, <<1, 5>>))
            ELSE IF strength >= 55 THEN RSub(<<3, 5>>, RMul(polarizationFactor, <<3, 20>>))
            ELSE RAdd(<<1, 5>>, RMul(polarizationFactor, <<1, 10>>))
    IN  scaleRange(range, [i \in 1..Len(range) |->
                             factor(getHandStrength(range[i].hand), range[i].hand)])

narrowByPostflopCheck(range) ==
    LET factor(strength, hand) ==
            IF strength >= 90 THEN <<1, 4>>
            ELSE IF strength >= 75 THEN <<1, 2>>
            ELSE <<9, 10>>
    IN  scaleRange(range, [i \in 1..Len(range) |->
                             factor(getHandStrength(range[i].hand), range[i].hand)])

\* mutant of narrowByPostflopCall: the strong hands are left unscaled as well
narrowByPostflopCall_WideBand(range) ==
    LET factor(strength, hand) ==
            IF strength >= 95 THEN <<3, 10>>
            ELSE IF strength >= 50 THEN ROne
            ELSE IF strength >= 35 THEN <<3, 5>>
            ELSE <<1, 10>>
    IN  scaleRange(range, [i \in 1..Len(range) |->
                             factor(getHandStrength(range[i].hand), range[i].hand)])

narrowByPostflopCall(range) ==
    LET factor(strength, hand) ==
            IF strength >= 95 THEN <<3, 10>>
            ELSE IF strength >= 70 THEN <<17, 20>>
            ELSE IF strength >= 50 THEN ROne
            ELSE IF strength >= 35 THEN <<3, 5>>
            ELSE <<1, 10>>
    IN  scaleRange(range, [i \in 1..Len(range) |->
                             factor(getHandStrength(range[i].hand), range[i].hand)])

\* RangeTracker: rs is the ranges Map of the tracker, a function on the ids it holds
has(rs, playerId) == playerId \in DOMAIN rs
set(rs, playerId, range) == (playerId :> range) @@ rs

initRange(rs, playerId, position, stats) ==
    set(rs, playerId, createStartingRange(position, stats))

initFullRange(rs, playerId) == set(rs, playerId, createFullRange)

applyAction(rs, playerId, action, position, stats, street, betSizePotFraction, isInPosition) ==
    LET range0 == IF has(rs, playerId) THEN rs[playerId] ELSE createFullRange
        range ==
            IF street = "preflop" \/ street = "" THEN
                IF action = "raises" \/ action = "bets"
                THEN narrowByOpenRaise(range0, position, stats)
                ELSE IF action = "calls"
                THEN narrowByPreflopCall(range0, position, isInPosition, stats)
                ELSE range0
            ELSE
                IF action = "bets" \/ action = "raises"
                THEN narrowByPostflopBet(range0, betSizePotFraction)
                ELSE IF action = "checks" THEN narrowByPostflopCheck(range0)
                ELSE IF action = "calls" THEN narrowByPostflopCall(range0)
                ELSE range0
    IN  set(rs, playerId, range)

reset(rs) == << >>

\* this.ranges.get(playerId), typed "WeightedHand[] | undefined": << >> is
\* undefined, <<range>> is the stored range
getRange(rs, playerId) == IF has(rs, playerId) THEN <<rs[playerId]>> ELSE << >>

RDiv(a, b) ==
    IF b[1] < 0 THEN RNorm(-(a[1] * b[2]), a[2] * (-b[1])) ELSE RNorm(a[1] * b[2], a[2] * b[1])

\* the sum of the weights of entries lo..hi, added by halves: the addition of
\* exact rationals is associative, so the grouping does not change the total
RECURSIVE sumWeights(_, _, _)
sumWeights(range, lo, hi) ==
    IF lo > hi THEN RZero
    ELSE IF lo = hi THEN range[lo].weight
    ELSE LET mid == (lo + hi) \div 2
         IN  RAdd(sumWeights(range, lo, mid), sumWeights(range, mid + 1, hi))

\* range.reduce((sum, wh) => sum + wh.weight, 0)
reduceWeights(range) == RAdd(RZero, sumWeights(range, 1, Len(range)))

\* mutant of normalizeRange: the weights are divided by the number of entries
normalizeRange_ByCount(range) ==
    LET totalWeight == reduceWeights(range)
    IN  IF totalWeight = RZero THEN range
        ELSE [i \in 1..Len(range) |->
                [range[i] EXCEPT !.weight = RDiv(@, <<Len(range), 1>>)]]

normalizeRange(range) ==
    LET totalWeight == reduceWeights(range)
    IN  IF totalWeight = RZero THEN range
        ELSE [i \in 1..Len(range) |-> [range[i] EXCEPT !.weight = RDiv(@, totalWeight)]]

\* range.filter(wh => wh.weight > 0.01)
getActiveHands(range) == SelectSeq(range, LAMBDA wh : QGt(wh.weight, <<1, 100>>))

\* the band that opens the description; the percentage and the top holdings
\* that follow it are left out
describeRange(range) ==
    LET normalized == normalizeRange(range)
        active == getActiveHands(normalized)
    IN  IF Len(active) = 0 THEN "Unknown range"
        ELSE IF Len(active) * 10 >= Len(ALL_HANDS) * 9 THEN "Very wide range"
        ELSE IF Len(active) <= 20 THEN "Very tight range"
        ELSE IF Len(active) <= 50 THEN "Tight range"
        ELSE IF Len(active) <= 100 THEN "Medium range"
        ELSE "Wide range"

(***************************************************************************)
(* utils/log-processing-utils.ts : postProcessLogsAfterHand, with the      *)
(* PlayerStats setters it calls.  A log entry is the array of strings the  *)
(* code indexes: <<player id, name, action, "", amount>> for an action,    *)
(* <<street, runout>> for a street change.  The table is the two maps the  *)
(* handler reads and writes through its accessors: the cached PlayerStats  *)
(* by player id and idToActionNum.                                         *)
(***************************************************************************)
Street == {"Preflop", "Flop", "Turn", "River"}

get3BetHands(s) == s.three_bet_hands
set3BetHands(s, three_bet) == [s EXCEPT !.three_bet_hands = three_bet]
set3BetOpportunities(s, opportunities) == [s EXCEPT !.three_bet_opportunities = opportunities]
incrementBetsRaises(s) == [s EXCEPT !.total_bets_raises = @ + 1]
incrementCalls(s) == [s EXCEPT !.total_calls = @ + 1]
incrementWalks(s) == [s EXCEPT !.walks = @ + 1]

\* the locals before the loop
AfterHandLocals == [action_count |-> 0, preflop_raise_count |-> 0, is_preflop |-> TRUE]

\* one iteration of the loop over logs: the locals, the cached statistics and
\* idToActionNum after the entry log
afterHandEntry(log, local, stats, actionNums) ==
    LET is_preflop == IF Len(log) = 2 /\ log[1] \in Street THEN FALSE ELSE local.is_preflop
    IN  IF Len(log) > 3 THEN
            LET player_id == log[1]
                action == log[3]
                isCall == action = "calls"
                isRaise == action = "bets" \/ action = "raises"
                action_num == IF isCall THEN 1 ELSE IF isRaise THEN 2 ELSE 0
                action_count == IF isCall \/ isRaise THEN local.action_count + 1
                                ELSE local.action_count
                preflop_raise_count == IF isRaise /\ is_preflop
                                       THEN local.preflop_raise_count + 1
                                       ELSE local.preflop_raise_count
                s0 == stats[player_id]
                s1 == IF isCall THEN incrementCalls(s0)
                      ELSE IF isRaise THEN incrementBetsRaises(s0) ELSE s0
                s2 == IF isRaise /\ is_preflop /\ preflop_raise_count >= 2
                      THEN set3BetHands(s1, get3BetHands(s1) + 1) ELSE s1
                s3 == IF is_preflop /\ preflop_raise_count = 1 /\ action # "posts"
                      THEN set3BetOpportunities(s2, get3BetOpportunities(s2) + 1) ELSE s2
            IN  [local |-> [action_count |-> action_count,
                            preflop_raise_count |-> preflop_raise_count,
                            is_preflop |-> is_preflop],
                 stats |-> IF player_id \in DOMAIN stats
                           THEN [stats EXCEPT ![player_id] = s3] ELSE stats,
                 actionNums |-> IF player_id \notin DOMAIN actionNums
                                    \/ actionNums[player_id] < action_num
                                THEN (player_id :> action_num) @@ actionNums
                                ELSE actionNums]
        ELSE [local |-> [local EXCEPT !.is_preflop = is_preflop],
              stats |-> stats, actionNums |-> actionNums]

\* after the loop: a hand without a call, bet or raise is a walk for every
\* player of idToActionNum
afterHandWalks(local, stats, actionNums) ==
    IF local.action_count = 0
    THEN [id \in DOMAIN stats |->
            IF id \in DOMAIN actionNums THEN incrementWalks(stats[id]) ELSE stats[id]]
    ELSE stats

(***************************************************************************)
(* The betting log of a preflop round and the context derived from it.     *)
(* Each step appends one logged action and derives the context afresh, as  *)
(* the caller does at every decision point.                                *)
(***************************************************************************)
MaxLogLen == 3

HeroId == "hero"
LogPlayers == {HeroId, "v1", "v2"}

CtxArgs(log, heroPos, posMap) ==
    [playerActions |-> log, heroId |-> HeroId, heroPosition |-> heroPos,
     positionMap |-> posMap]

\* v2 has no entry in the second map
PositionMaps ==
    { (HeroId :> "BU" @@ "v1" :> "UTG" @@ "v2" :> "CO"),
      (HeroId :> "BB" @@ "v1" :> "BU") }

Analysed(a) ==
    analyzePreflopContext(a.playerActions, a.heroId, a.heroPosition, a.positionMap)

IdleCtx ==
    /\ ctx_in = CtxArgs(<< >>, "BU", HeroId :> "BU")
    /\ ctx_out = Analysed(ctx_in)

\* one more entry in the log, then analyzePreflopContext on the whole log
LogAppend(entry) ==
    /\ Len(ctx_in.playerActions) < MaxLogLen
    /\ op' = "analyzePreflopContext"
    /\ ctx_in' = [ctx_in EXCEPT !.playerActions = Append(@, entry)]
    /\ ctx_out' = Analysed(ctx_in')
    /\ UNCHANGED <<gtoVars, pfVars, rtVars, fnVars, eqVars, lpVars>>

LogEntry(p, a, amt) == [playerId |-> p, action |-> a, betAmount |-> amt]

LogRaises == \E p \in LogPlayers, amt \in {250, 900} : LogAppend(LogEntry(p, "raises", amt))
LogBets   == \E p \in LogPlayers : LogAppend(LogEntry(p, "bets", 300))
LogCalls  == \E p \in LogPlayers : LogAppend(LogEntry(p, "calls", 100))
LogPosts  == \E p \in LogPlayers : LogAppend(LogEntry(p, "posts", 50))
LogFolds  == \E p \in LogPlayers : LogAppend(LogEntry(p, "folds", 0))

(***************************************************************************)
(* Input domains of the preflop engine                                     *)
(***************************************************************************)
MaxPlayersInPot == 4

Ranks == {RANK_ORDER[i] : i \in 1..Len(RANK_ORDER)}
Positions == {"UTG", "UTG+1", "MP", "LJ", "HJ", "CO", "BU", "SB", "BB"}
\* every table position and one position no table knows
AnyPositions == Positions \cup {"XX"}

\* every ordered pair of ranks, suited and offsuit: all 169 classes, both orders
AllCardPairs ==
    {pair \in {<<<<r1, "s">>, <<r2, s2>>>> : r1 \in Ranks, r2 \in Ranks, s2 \in {"s", "h"}} :
        pair[1] # pair[2]}

\* a sample of classes around the thresholds, "10" spelling included
SampleCardPairs ==
    { <<<<"A", "s">>, <<"A", "h">>>>, <<<<"K", "h">>, <<"K", "d">>>>,
      <<<<"Q", "s">>, <<"Q", "h">>>>, <<<<"J", "s">>, <<"J", "h">>>>,
      <<<<"10", "s">>, <<"10", "h">>>>, <<<<"9", "s">>, <<"9", "h">>>>,
      <<<<"2", "s">>, <<"2", "h">>>>,
      <<<<"K", "s">>, <<"A", "s">>>>, <<<<"A", "s">>, <<"K", "h">>>>,
      <<<<"A", "s">>, <<"Q", "s">>>>, <<<<"K", "d">>, <<"Q", "d">>>>,
      <<<<"A", "s">>, <<"10", "s">>>>, <<<<"K", "s">>, <<"J", "h">>>>,
      <<<<"5", "s">>, <<"A", "s">>>>, <<<<"A", "h">>, <<"4", "h">>>>,
      <<<<"A", "s">>, <<"2", "s">>>>, <<<<"7", "s">>, <<"6", "s">>>>,
      <<<<"10", "c">>, <<"9", "c">>>>, <<<<"K", "s">>, <<"5", "s">>>>,
      <<<<"K", "s">>, <<"2", "s">>>>, <<<<"Q", "s">>, <<"4", "s">>>>,
      <<<<"8", "s">>, <<"7", "s">>>>, <<<<"A", "s">>, <<"9", "h">>>>,
      <<<<"6", "s">>, <<"5", "h">>>>, <<<<"7", "s">>, <<"2", "h">>>>,
      <<<<"3", "s">>, <<"2", "h">>>> }

StatsOf(th, w, vp, pf, tb, tbo, br, ca) ==
    [total_hands |-> th, walks |-> w, vpip_hands |-> vp, pfr_hands |-> pf,
     three_bet_hands |-> tb, three_bet_opportunities |-> tbo,
     total_bets_raises |-> br, total_calls |-> ca]

\* null, too few hands, nit, calling station, LAG, TAG, loose passive,
\* frequent 3-bettor with a high aggression factor
StatsSamples ==
    { << >>,
      <<StatsOf(5, 0, 1, 0, 0, 0, 0, 0)>>,
      <<StatsOf(20, 0, 2, 1, 0, 0, 5, 5)>>,
      <<StatsOf(20, 0, 10, 1, 0, 0, 2, 10)>>,
      <<StatsOf(20, 0, 8, 6, 0, 2, 6, 3)>>,
      <<StatsOf(20, 0, 4, 4, 0, 0, 4, 4)>>,
      <<StatsOf(21, 1, 7, 3, 0, 0, 1, 4)>>,
      <<StatsOf(20, 0, 5, 4, 2, 5, 10, 2)>> }

Ctx(fRFI, fLimp, fOpen, f3Bet, f4Bet, opener, lastRaise, ip, players) ==
    [isRFI |-> fRFI, facingOpen |-> fOpen, facing3Bet |-> f3Bet, facing4Bet |-> f4Bet,
     facingLimp |-> fLimp,
     numRaises |-> IF f4Bet THEN 3 ELSE IF f3Bet THEN 2 ELSE IF fOpen THEN 1 ELSE 0,
     openRaiserPosition |-> opener, lastRaiseSize |-> lastRaise,
     potSize |-> 150 + lastRaise + (players - 2) * 100,
     isInPosition |-> ip, playersInPot |-> players]

\* the state no preflop decision touches
OtherThanGTO == <<ctxVars, pfVars, rtVars, fnVars, eqVars, lpVars>>

GTOArgs(cards, pos, stack, ctx, stats, rnd) ==
    [card1 |-> cards[1], card2 |-> cards[2], heroPosition |-> pos,
     stackSizeBBs |-> stack, context |-> ctx, opponentStats |-> stats, rnd |-> rnd]

NoGTOArgs ==
    GTOArgs(<<<<"A", "s">>, <<"A", "h">>>>, "UTG", 10000,
            Ctx(TRUE, FALSE, FALSE, FALSE, FALSE, "", 0, FALSE, 2), << >>, <<0, 0>>)

\* one call of getGTOPreflopAction
GTOCall(a) ==
    /\ op' = "getGTOPreflopAction"
    /\ gto_in' = a
    /\ gto_out' = getGTOPreflopAction(a.card1, a.card2, a.heroPosition, a.stackSizeBBs,
                                      a.context, a.opponentStats, a.rnd)
    /\ UNCHANGED OtherThanGTO

\* first in, every hand class and position, short and deep stacks
GTOFirstIn ==
    /\ op = "init"
    /\ \E cards \in AllCardPairs, pos \in AnyPositions,
       stack \in {1200, 1250, 1700, 1750, 2450, 2500, 10000} :
        GTOCall(GTOArgs(cards, pos, stack,
                        Ctx(TRUE, FALSE, FALSE, FALSE, FALSE, "", 0, FALSE, 2),
                        << >>, <<0, 0>>))

\* first in or over limpers, deep, against every opponent profile
GTOOpenOrIsolate ==
    /\ op = "init"
    /\ \E cards \in SampleCardPairs, pos \in {"UTG", "CO", "SB", "XX"},
       stack \in {2500, 10000}, limp \in BOOLEAN,
       players \in 2..MaxPlayersInPot, stats \in StatsSamples :
        GTOCall(GTOArgs(cards, pos, stack,
                        Ctx(~limp, limp, FALSE, FALSE, FALSE, "", 0, FALSE, players),
                        stats, <<0, 0>>))

\* short stack facing an open, every hand class and position
GTOShortFacingOpen ==
    /\ op = "init"
    /\ \E cards \in AllCardPairs, pos \in AnyPositions, stack \in {1200, 1700, 2450},
       ip \in BOOLEAN, players \in 2..MaxPlayersInPot :
        GTOCall(GTOArgs(cards, pos, stack,
                        Ctx(FALSE, FALSE, TRUE, FALSE, FALSE, "UTG", 250, ip, players),
                        << >>, <<0, 0>>))

\* any combination of the five context flags, short and deep
GTOAnyFlags ==
    /\ op = "init"
    /\ \E cards \in SampleCardPairs, pos \in {"UTG", "BU", "BB"},
       stack \in {1200, 2000, 2500, 10000},
       rfi \in BOOLEAN, limp \in BOOLEAN, open \in BOOLEAN,
       three \in BOOLEAN, four \in BOOLEAN, stats \in {<< >>, <<StatsOf(20, 0, 2, 1, 0, 0, 5, 5)>>} :
        GTOCall(GTOArgs(cards, pos, stack,
                        Ctx(rfi, limp, open, three, four, "CO", 300, TRUE, 2),
                        stats, <<50, 50>>))

\* deep stack facing an open
GTOFacingOpen ==
    /\ op = "init"
    /\ \E cards \in SampleCardPairs, pos \in {"BU", "BB"}, stack \in {2500, 10000},
       opener \in {"UTG", "SB", ""}, lastRaise \in {250, 1000}, ip \in BOOLEAN,
       players \in 2..MaxPlayersInPot,
       stats \in {<< >>, <<StatsOf(20, 0, 10, 1, 0, 0, 2, 10)>>},
       r1 \in {0, 37, 50}, r2 \in {0, 50} :
        GTOCall(GTOArgs(cards, pos, stack,
                        Ctx(FALSE, FALSE, TRUE, FALSE, FALSE, opener, lastRaise, ip, players),
                        stats, <<r1, r2>>))

\* deep stack facing a 3-bet or a 4-bet
GTOFacingReraise ==
    /\ op = "init"
    /\ \E cards \in SampleCardPairs, pos \in {"BU", "BB"}, stack \in {2500, 10000},
       four \in BOOLEAN, lastRaise \in {900, 1200}, ip \in BOOLEAN, r1 \in {0, 30, 50} :
        GTOCall(GTOArgs(cards, pos, stack,
                        Ctx(FALSE, FALSE, FALSE, ~four, four, "BU", lastRaise, ip, 2),
                        << >>, <<r1, 0>>))

IdleGTO ==
    /\ gto_in = NoGTOArgs
    /\ gto_out = Decision("", 0, 0, "")

(***************************************************************************)
(* Input domains of the postflop engine.  Pots and stacks are whole big    *)
(* blinds with 400 * stack divisible by the pot, so that every fold        *)
(* equity is a whole number of 10^-7.                                      *)
(***************************************************************************)
Equities == {0, 20, 50, 80, 100}
Pots == {0, 100, 500, 1000, 2000}
Stacks == {0, 100, 300, 1000, 4000}
CallAmounts == {0, 100, 500}
Streets == {"flop", "turn", "river"}
PostflopStats ==
    { << >>, <<StatsOf(20, 0, 2, 1, 0, 0, 5, 5)>>, <<StatsOf(20, 0, 10, 1, 0, 0, 2, 10)>> }

PFArgs(eq, pot, stack, street, facing, toCall, stats, cc, cb) ==
    [equity |-> eq, potBBs |-> pot, stackBBs |-> stack, street |-> street,
     facingBet |-> facing, betToCallBBs |-> toCall, opponentStats |-> stats,
     canCheck |-> cc, canBet |-> cb]

NoPFArgs == PFArgs(50, 0, 0, "flop", FALSE, 0, << >>, FALSE, FALSE)

IdlePF ==
    /\ pf_in = NoPFArgs
    /\ pf_allEVs = << >>
    /\ pf_out = PostflopDecision("", 0, WInt(0), WInt(0))

\* one call of getPostflopEVDecision
PostflopCall(a) ==
    /\ op' = "getPostflopEVDecision"
    /\ pf_in' = a
    /\ pf_allEVs' = sortByEV(<< >>,
                        enumerateActions(a.equity, a.potBBs, a.stackBBs, a.street,
                                         a.facingBet, a.betToCallBBs, a.opponentStats,
                                         a.canCheck, a.canBet))
    /\ pf_out' = getPostflopEVDecision(a.equity, a.potBBs, a.stackBBs, a.street,
                                       a.facingBet, a.betToCallBBs, a.opponentStats,
                                       a.canCheck, a.canBet)
    /\ UNCHANGED <<gtoVars, ctxVars, rtVars, fnVars, eqVars, lpVars>>

\* hero is first to act or checked to
PostflopNotFacing ==
    /\ op = "init"
    /\ \E eq \in Equities, pot \in Pots, stack \in Stacks, street \in Streets,
          toCall \in CallAmounts, stats \in PostflopStats,
          cc \in BOOLEAN, cb \in BOOLEAN :
            PostflopCall(PFArgs(eq, pot, stack, street, FALSE, toCall, stats, cc, cb))

\* hero faces a bet
PostflopFacingBet ==
    /\ op = "init"
    /\ \E eq \in Equities, pot \in Pots, stack \in Stacks, street \in Streets,
          toCall \in CallAmounts, stats \in PostflopStats,
          cc \in BOOLEAN, cb \in BOOLEAN :
            PostflopCall(PFArgs(eq, pot, stack, street, TRUE, toCall, stats, cc, cb))

(***************************************************************************)
(* The RangeTracker of one hand of play: any sequence of at most MaxOps    *)
(* calls of initRange, initFullRange, applyAction and reset.               *)
(***************************************************************************)
MaxOps == 3
MaxStarts == 2

RTPlayers == {"v1", "v2"}

RTCall(name, playerId, position, stats, action, street, fraction, ip) ==
    [name |-> name, playerId |-> playerId, position |-> position, stats |-> stats,
     action |-> action, street |-> street, betSizePotFraction |-> fraction,
     isInPosition |-> ip]

NoRTCall == RTCall("", "", "", << >>, "", "", <<1, 2>>, TRUE)

IdleRT ==
    /\ ranges = << >>
    /\ rt_call = NoRTCall
    /\ nOps = 0
    /\ wasReset = FALSE

\* null, fewer than 8 hands, a nit
RangeStats ==
    { << >>, <<StatsOf(5, 0, 1, 0, 0, 0, 0, 0)>>, <<StatsOf(20, 0, 2, 1, 0, 0, 5, 5)>> }

LagStats == <<StatsOf(20, 0, 8, 6, 0, 2, 6, 3)>>

InitRangeCall(p, pos, stats) ==
    /\ ranges' = initRange(ranges, p, pos, stats)
    /\ rt_call' = RTCall("initRange", p, pos, stats, "", "", <<1, 2>>, TRUE)
    /\ nOps' = nOps + 1
    /\ op' = "initRange"
    /\ UNCHANGED <<wasReset, gtoVars, ctxVars, pfVars, fnVars, eqVars, lpVars>>

\* initRange during a hand
InitRange ==
    /\ nOps < MaxOps
    /\ \E p \in RTPlayers, a \in {<<"UTG", << >>>>, <<"XX", LagStats>>} :
            InitRangeCall(p, a[1], a[2])

\* initRange at the start of a hand, from every position
StartRange ==
    /\ nOps < MaxStarts
    /\ \E p \in RTPlayers, pos \in AnyPositions, stats \in RangeStats :
            InitRangeCall(p, pos, stats)

InitFullRange ==
    /\ nOps < MaxOps
    /\ \E p \in RTPlayers :
        /\ ranges' = initFullRange(ranges, p)
        /\ rt_call' = RTCall("initFullRange", p, "", << >>, "", "", <<1, 2>>, TRUE)
    /\ nOps' = nOps + 1
    /\ op' = "initFullRange"
    /\ UNCHANGED <<wasReset, gtoVars, ctxVars, pfVars, fnVars, eqVars, lpVars>>

ApplyCall(c) ==
    /\ ranges' = applyAction(ranges, c.playerId, c.action, c.position, c.stats, c.street,
                             c.betSizePotFraction, c.isInPosition)
    /\ rt_call' = c
    /\ nOps' = nOps + 1
    /\ op' = "applyAction"
    /\ UNCHANGED <<wasReset, gtoVars, ctxVars, pfVars, fnVars, eqVars, lpVars>>

\* a preflop action of an opponent (street "preflop" or "")
ApplyPreflop ==
    /\ nOps < MaxOps
    /\ \E p \in RTPlayers,
          a \in { <<"raises", "UTG", "preflop", TRUE, << >>>>,
                  <<"calls", "BB", "", FALSE, LagStats>>,
                  <<"checks", "CO", "preflop", TRUE, << >>>> } :
            ApplyCall(RTCall("applyAction", p, a[2], a[5], a[1], a[3], <<1, 2>>, a[4]))

\* a postflop action of an opponent, the bet size as a fraction of the pot
ApplyPostflop ==
    /\ nOps < MaxOps
    /\ \E p \in RTPlayers,
          a \in { <<"raises", "flop", <<1, 2>>>>, <<"bets", "river", <<3, 2>>>>,
                  <<"checks", "turn", <<1, 2>>>>, <<"calls", "turn", <<1, 2>>>> } :
            ApplyCall(RTCall("applyAction", p, "BU", << >>, a[1], a[2], a[3], TRUE))

ResetCall ==
    /\ ranges' = reset(ranges)
    /\ rt_call' = RTCall("reset", "", "", << >>, "", "", <<1, 2>>, TRUE)
    /\ nOps' = nOps + 1
    /\ wasReset' = TRUE
    /\ op' = "reset"
    /\ UNCHANGED <<gtoVars, ctxVars, pfVars, fnVars, eqVars, lpVars>>

\* reset during a hand
Reset == nOps < MaxOps /\ ResetCall

\* reset between the initRange calls
StartOver == nOps < MaxStarts /\ ResetCall

(***************************************************************************)
(* helpers/equity-calculator.ts                                            *)
(*                                                                         *)
(* A card is a pair <<rank, suit>>, the rank "10" being the spelling the   *)
(* table uses for a ten.  The hand evaluator (rankBoard of the phe         *)
(* library) and the shuffle (Math.random) are outside the repository: a    *)
(* trial is given the ranks the evaluator returns for the hero and for     *)
(* each opponent, lower being stronger.  The equity is an exact rational.  *)
(***************************************************************************)
EQ_RANKS == <<"2", "3", "4", "5", "6", "7", "8", "9", "T", "J", "Q", "K", "A">>
SUITS == <<"s", "h", "d", "c">>

\* the deck in the order of the two loops: RANKS outer, SUITS inner
buildDeck ==
    [k \in 1..(Len(EQ_RANKS) * Len(SUITS)) |->
        <<EQ_RANKS[((k - 1) \div Len(SUITS)) + 1], SUITS[((k - 1) % Len(SUITS)) + 1]>>]

normalizeCard(card) == IF card[1] = "10" THEN <<"T", card[2]>> ELSE card

\* buildDeck().filter(c => !usedCards.has(c))
remainingDeckOf(heroCards, boardCards) ==
    LET heroNorm == [i \in 1..Len(heroCards) |-> normalizeCard(heroCards[i])]
        boardNorm == [i \in 1..Len(boardCards) |-> normalizeCard(boardCards[i])]
        usedCards == {heroNorm[i] : i \in 1..Len(heroNorm)}
                        \cup {boardNorm[i] : i \in 1..Len(boardNorm)}
    IN  SelectSeq(buildDeck, LAMBDA c : c \notin usedCards)

\* mutant of totalCardsNeeded: the board is completed from scratch
totalCardsNeeded_IgnoreBoard(boardCards, numOpponents) ==
    LET cardsNeededForBoard == 5
        cardsNeededPerOpponent == 2
    IN  cardsNeededForBoard + (numOpponents * cardsNeededPerOpponent)

totalCardsNeeded(boardCards, numOpponents) ==
    LET cardsNeededForBoard == 5 - Len(boardCards)
        cardsNeededPerOpponent == 2
    IN  cardsNeededForBoard + (numOpponents * cardsNeededPerOpponent)

\* the early return of calculateEquity
notEnoughCards(heroCards, boardCards, numOpponents) ==
    Len(remainingDeckOf(heroCards, boardCards)) < totalCardsNeeded(boardCards, numOpponents)

\* the loop over the opponents of one trial from opponent opp on; the result
\* is <<heroBeat, heroTied>>
RECURSIVE evaluateOpponents(_, _, _, _, _)
evaluateOpponents(heroRank, oppRanks, opp, heroBeat, heroTied) ==
    IF opp > Len(oppRanks) THEN <<heroBeat, heroTied>>
    ELSE IF oppRanks[opp] < heroRank THEN <<FALSE, FALSE>>
    ELSE IF oppRanks[opp] = heroRank
         THEN evaluateOpponents(heroRank, oppRanks, opp + 1, FALSE, heroTied)
    ELSE evaluateOpponents(heroRank, oppRanks, opp + 1, heroBeat, FALSE)

\* ((wins + ties * 0.5) / numSimulations) * 100
equityOf(wins, ties, numSimulations) == RNorm((2 * wins + ties) * 100, 2 * numSimulations)

(***************************************************************************)
(* Calls of calculateEquity: the call, its trials one by one, its return.  *)
(***************************************************************************)
MaxOpponents == 3
MaxSims == 2

\* the ranks the evaluator may return
RankSamples == {1, 2}

HeroHands == { <<<<"A", "s">>, <<"K", "h">>>>, <<<<"10", "h">>, <<"10", "d">>>> }

Boards ==
    { << >>,
      <<<<"10", "s">>, <<"7", "d">>, <<"2", "c">>>>,
      <<<<"A", "h">>, <<"K", "d">>, <<"Q", "c">>, <<"J", "s">>, <<"9", "s">>>> }

\* a few opponents, and the counts around the capacity of the deck
NumOpponents == (1..MaxOpponents) \cup {22, 23}

\* the opponents' ranks of one trial: every combination at a small table, the
\* same rank for everyone at a large one
OppRanks(n) ==
    IF n <= MaxOpponents THEN [1..n -> RankSamples]
    ELSE {[i \in 1..n |-> r] : r \in RankSamples}

EqArgs(hero, board, n, sims) ==
    [heroCards |-> hero, boardCards |-> board, numOpponents |-> n, numSimulations |-> sims]

NoEqArgs == EqArgs(<< >>, << >>, 0, 0)

IdleEq ==
    /\ eq_in = NoEqArgs
    /\ eq_sim = 0
    /\ eq_wins = 0
    /\ eq_ties = 0
    /\ eq_deal = << >>
    /\ eq_out = << >>

OtherThanEq == <<gtoVars, ctxVars, pfVars, rtVars, fnVars, lpVars>>

\* calculateEquity is entered: it returns 50 at once or starts its loop
EquityCall ==
    /\ op = "init"
    /\ \E hero \in HeroHands, board \in Boards, n \in NumOpponents, sims \in 1..MaxSims :
        /\ eq_in' = EqArgs(hero, board, n, sims)
        /\ eq_out' = IF notEnoughCards(hero, board, n) THEN <<<<50, 1>>>> ELSE << >>
    /\ eq_sim' = 0
    /\ eq_wins' = 0
    /\ eq_ties' = 0
    /\ eq_deal' = << >>
    /\ op' = "calculateEquity"
    /\ UNCHANGED OtherThanEq

\* one iteration of the loop over sim
EquityTrial ==
    /\ op \in {"calculateEquity", "trial"}
    /\ eq_out = << >>
    /\ eq_sim < eq_in.numSimulations
    /\ \E heroRank \in RankSamples, oppRanks \in OppRanks(eq_in.numOpponents) :
        LET flags == evaluateOpponents(heroRank, oppRanks, 1, TRUE, TRUE)
            heroBeat == flags[1]
            heroTied == flags[2]
        IN  /\ eq_wins' = IF heroBeat THEN eq_wins + 1 ELSE eq_wins
            /\ eq_ties' = IF ~heroBeat /\ heroTied THEN eq_ties + 1 ELSE eq_ties
            /\ eq_deal' = Append(eq_deal, [heroRank |-> heroRank, oppRanks |-> oppRanks])
    /\ eq_sim' = eq_sim + 1
    /\ op' = "trial"
    /\ UNCHANGED <<eq_in, eq_out, OtherThanEq>>

\* the loop is over: the equity is returned
EquityReturn ==
    /\ op \in {"calculateEquity", "trial"}
    /\ eq_out = << >>
    /\ eq_sim >= eq_in.numSimulations
    /\ eq_out' = <<equityOf(eq_wins, eq_ties, eq_in.numSimulations)>>
    /\ op' = "return"
    /\ UNCHANGED <<eq_in, eq_sim, eq_wins, eq_ties, eq_deal, OtherThanEq>>

(***************************************************************************)
(* Calls of the pure helpers getHandStrength, normalizeRange and           *)
(* narrowByPostflopCall.                                                   *)
(***************************************************************************)
MaxRangeLen == 3

FnArgs(name, arg) == [name |-> name, arg |-> arg]

IdleFn ==
    /\ fn_in = FnArgs("", "")
    /\ fn_out = ""

OtherThanFn == <<gtoVars, ctxVars, pfVars, rtVars, eqVars, lpVars>>

FnCall(name, arg, result) ==
    /\ fn_in' = FnArgs(name, arg)
    /\ fn_out' = result
    /\ op' = name
    /\ UNCHANGED OtherThanFn

\* strings that are no canonical hand class
OtherStrings ==
    {"", "XX", "AKx", "KAs", "72", "22s", "aks", "AAo", "10 9s", "constructor", "toString"}

HandStrengthCall ==
    /\ op = "init"
    /\ \E h \in {ALL_HANDS[i] : i \in 1..Len(ALL_HANDS)} \cup OtherStrings :
            FnCall("getHandStrength", h, getHandStrength(h))

WeightSamples == {<<0, 1>>, <<1, 50>>, <<1, 2>>, <<1, 1>>, <<21, 20>>}

\* the ranges over the first k classes with sampled weights
ShortRanges ==
    UNION {{[i \in 1..k |-> WeightedHand(ALL_HANDS[i], w[i])] : w \in [1..k -> WeightSamples]} :
            k \in 0..MaxRangeLen}

\* ranges as the tracker produces them
TrackedRanges ==
    { createFullRange,
      createStartingRange("UTG", << >>),
      createStartingRange("BB", LagStats),
      narrowByOpenRaise(createFullRange, "CO", << >>),
      narrowByPostflopBet(createFullRange, <<3, 2>>),
      narrowByPostflopCheck(createStartingRange("BU", << >>)) }

NormalizeRangeCall ==
    /\ op = "init"
    /\ \E r \in ShortRanges \cup TrackedRanges : FnCall("normalizeRange", r, normalizeRange(r))

NarrowByPostflopCallCall ==
    /\ op = "init"
    /\ \E r \in TrackedRanges : FnCall("narrowByPostflopCall", r, narrowByPostflopCall(r))

\* the ranges in which the first n classes weigh 1 and the others 0
EqualWeightRange(n) ==
    [i \in 1..Len(ALL_HANDS) |-> WeightedHand(ALL_HANDS[i], IF i <= n THEN ROne ELSE RZero)]

DescribeRangeCall ==
    /\ op = "init"
    /\ \E r \in {EqualWeightRange(n) : n \in 0..Len(ALL_HANDS)} \cup TrackedRanges :
            FnCall("describeRange", r, describeRange(r))

(***************************************************************************)
(* A preflop decision taken on an analysed log: analyzePreflopContext      *)
(* derives the context from the betting log, getGTOPreflopAction decides   *)
(* on that context                                                         *)
(***************************************************************************)
\* hero on the button and in the small blind
OpenPositionMaps ==
    { (HeroId :> "BU" @@ "v1" :> "UTG" @@ "v2" :> "CO"),
      (HeroId :> "SB" @@ "v1" :> "UTG" @@ "v2" :> "CO") }

\* AA, KQs, 76s, 72o
OpenHands ==
    { <<<<"A", "s">>, <<"A", "h">>>>, <<<<"K", "d">>, <<"Q", "d">>>>,
      <<<<"7", "s">>, <<"6", "s">>>>, <<<<"7", "s">>, <<"2", "h">>>> }

\* the log grows until hero's decision is asked for
LogGrows ==
    /\ op # "getGTOPreflopAction"
    /\ (LogRaises \/ LogBets \/ LogCalls \/ LogPosts \/ LogFolds)

\* getGTOPreflopAction on the context analysed from the log so far
DecideOnLog ==
    /\ op # "getGTOPreflopAction"
    /\ \E cards \in OpenHands, stack \in {2000, 10000} :
        GTOCall(GTOArgs(cards, ctx_in.heroPosition, stack, ctx_out, << >>, <<50, 50>>))

(***************************************************************************)
(* Hands of play handed to postProcessLogsAfterHand: at most MaxHands      *)
(* calls, each on a log of at most MaxHandLen entries, the loop taken one  *)
(* entry at a time.  Every logged player has cached statistics, all zero   *)
(* when the table is set up.                                               *)
(***************************************************************************)
MaxHandLen == 3
MaxHands == 2

StatPlayers == {"v1", "v2"}

HandEntry(player_id, action, amount) == <<player_id, "", action, "", amount>>

HandEntries ==
    {HandEntry(p, a, "20") : p \in StatPlayers, a \in {"calls", "raises", "folds"}}
        \cup {HandEntry("v1", "posts", "10"), <<"Flop", "Ah Kd 7c">>}

IdleLP ==
    /\ player_stats = [p \in StatPlayers |-> StatsOf(0, 0, 0, 0, 0, 0, 0, 0)]
    /\ id_to_action_num = << >>
    /\ lp_logs = << >>
    /\ lp_local = AfterHandLocals
    /\ nHands = 0

OtherThanLP == <<gtoVars, ctxVars, pfVars, rtVars, fnVars, eqVars>>

\* postProcessLogsAfterHand is called: its locals are initialised
AfterHandCall ==
    /\ op \in {"init", "postProcessLogsAfterHand"}
    /\ nHands < MaxHands
    /\ op' = "afterHandCall"
    /\ nHands' = nHands + 1
    /\ lp_logs' = << >>
    /\ lp_local' = AfterHandLocals
    /\ UNCHANGED <<player_stats, id_to_action_num, OtherThanLP>>

\* one iteration of its loop, on the next entry of logs
AfterHandEntry ==
    /\ op \in {"afterHandCall", "afterHandEntry"}
    /\ Len(lp_logs) < MaxHandLen
    /\ \E log \in HandEntries :
        LET r == afterHandEntry(log, lp_local, player_stats, id_to_action_num)
        IN  /\ lp_logs' = Append(lp_logs, log)
            /\ lp_local' = r.local
            /\ player_stats' = r.stats
            /\ id_to_action_num' = r.actionNums
    /\ op' = "afterHandEntry"
    /\ UNCHANGED <<nHands, OtherThanLP>>

\* the end of logs: the walks are counted and the handler returns
AfterHandReturn ==
    /\ op \in {"afterHandCall", "afterHandEntry"}
    /\ player_stats' = afterHandWalks(lp_local, player_stats, id_to_action_num)
    /\ op' = "postProcessLogsAfterHand"
    /\ UNCHANGED <<id_to_action_num, lp_logs, lp_local, nHands, OtherThanLP>>

(***************************************************************************)
(* Specifications: one per component, each leaving the others idle         *)
(***************************************************************************)
InitGTO ==
    /\ op = "init"
    /\ IdleGTO
    /\ IdleCtx
    /\ IdlePF
    /\ IdleRT
    /\ IdleFn
    /\ IdleEq
    /\ IdleLP

NextGTO ==
    \/ GTOFirstIn
    \/ GTOOpenOrIsolate
    \/ GTOShortFacingOpen
    \/ GTOAnyFlags
    \/ GTOFacingOpen
    \/ GTOFacingReraise

SpecGTO == InitGTO /\ [][NextGTO]_vars

InitCtx ==
    /\ op = "init"
    /\ IdleGTO
    /\ \E m \in PositionMaps : ctx_in = CtxArgs(<< >>, m[HeroId], m)
    /\ ctx_out = Analysed(ctx_in)
    /\ IdlePF
    /\ IdleRT
    /\ IdleFn
    /\ IdleEq
    /\ IdleLP

NextCtx == LogRaises \/ LogBets \/ LogCalls \/ LogPosts \/ LogFolds

SpecCtx == InitCtx /\ [][NextCtx]_vars

InitPF ==
    /\ op = "init"
    /\ IdleGTO
    /\ IdleCtx
    /\ IdlePF
    /\ IdleRT
    /\ IdleFn
    /\ IdleEq
    /\ IdleLP

NextPF == PostflopNotFacing \/ PostflopFacingBet

SpecPF == InitPF /\ [][NextPF]_vars

InitRT ==
    /\ op = "init"
    /\ IdleGTO
    /\ IdleCtx
    /\ IdlePF
    /\ IdleRT
    /\ IdleFn
    /\ IdleEq
    /\ IdleLP

NextRT == InitRange \/ InitFullRange \/ ApplyPreflop \/ ApplyPostflop \/ Reset

SpecRT == InitRT /\ [][NextRT]_vars

NextRTStart == StartRange \/ StartOver

SpecRTStart == InitRT /\ [][NextRTStart]_vars

InitEq ==
    /\ op = "init"
    /\ IdleGTO
    /\ IdleCtx
    /\ IdlePF
    /\ IdleRT
    /\ IdleFn
    /\ IdleEq
    /\ IdleLP

NextEq == EquityCall \/ EquityTrial \/ EquityReturn

SpecEq == InitEq /\ [][NextEq]_vars

InitFn ==
    /\ op = "init"
    /\ IdleGTO
    /\ IdleCtx
    /\ IdlePF
    /\ IdleRT
    /\ IdleFn
    /\ IdleEq
    /\ IdleLP

NextFn ==
    HandStrengthCall \/ NormalizeRangeCall \/ NarrowByPostflopCallCall \/ DescribeRangeCall

SpecFn == InitFn /\ [][NextFn]_vars

InitOpen ==
    /\ op = "init"
    /\ IdleGTO
    /\ \E m \in OpenPositionMaps : ctx_in = CtxArgs(<< >>, m[HeroId], m)
    /\ ctx_out = Analysed(ctx_in)
    /\ IdlePF
    /\ IdleRT
    /\ IdleFn
    /\ IdleEq
    /\ IdleLP

NextOpen == LogGrows \/ DecideOnLog

SpecOpen == InitOpen /\ [][NextOpen]_vars

InitLP ==
    /\ op = "init"
    /\ IdleGTO
    /\ IdleCtx
    /\ IdlePF
    /\ IdleRT
    /\ IdleFn
    /\ IdleEq
    /\ IdleLP

NextLP == AfterHandCall \/ AfterHandEntry \/ AfterHandReturn

SpecLP == InitLP /\ [][NextLP]_vars

(***************************************************************************)
(* Properties of the preflop engine (specification SpecGTO)                *)
(***************************************************************************)
GTOCalled == op = "getGTOPreflopAction"
GTOHand == normalizeHand(gto_in.card1, gto_in.card2)
AnyFlag(c) == c.isRFI \/ c.facingLimp \/ c.facingOpen \/ c.facing3Bet \/ c.facing4Bet

\* C1: with a stack below 25 BB the decision is the push/fold sub-model's,
\* whichever context flags are set: all-in or fold, or a 2.5 BB raise only
\* when first in with more than 17 BB; never a call, never confidence 0.
C1_ShortStackOverride ==
    (GTOCalled /\ gto_in.stackSizeBBs < 2500) =>
        /\ gto_out.action \in {"all-in", "fold", "raise"}
        /\ gto_out.action = "raise" =>
              /\ gto_out.sizingBBs = 250
              /\ gto_in.context.isRFI
              /\ gto_in.stackSizeBBs > 1700
        /\ gto_out.action # "call"
        /\ gto_out.confidence # 0

\* a short stack with deep-stack flags set next to the first-in flag opens 2.5 BB
C1_Witness ==
    /\ GTOCalled
    /\ gto_in.stackSizeBBs = 2000
    /\ gto_in.context.isRFI /\ gto_in.context.facingOpen /\ gto_in.context.facing4Bet
    /\ gto_out.action = "raise"

\* C2: with 25 BB or more the confidence is 0 (and the action empty) exactly
\* when no context flag holds; in every other case, short stacks included,
\* the confidence is in (0, 1].
C2_ZeroConfidenceOnlyUnhandled ==
    GTOCalled =>
        /\ gto_in.stackSizeBBs >= 2500 =>
              ((gto_out.confidence = 0 /\ gto_out.action = "") <=> ~AnyFlag(gto_in.context))
        /\ (gto_in.stackSizeBBs < 2500 \/ AnyFlag(gto_in.context)) =>
              (gto_out.confidence > 0 /\ gto_out.confidence <= 100)

\* a deep-stack call without any context flag got the fallback
C2_Witness ==
    /\ GTOCalled
    /\ gto_in.stackSizeBBs >= 2500
    /\ ~AnyFlag(gto_in.context)
    /\ gto_out.confidence = 0
    /\ gto_out.action = ""

\* C4: pocket aces under the gun, first in (no raise, no limper, two players
\* in the pot) with 25 BB or more: raise 2.5 BB with confidence >= 0.85,
\* whatever the opponent statistics.
C4_AcesUTGOpen ==
    (/\ GTOCalled
     /\ GTOHand = "AA"
     /\ gto_in.heroPosition = "UTG"
     /\ gto_in.stackSizeBBs >= 2500
     /\ gto_in.context.isRFI /\ ~gto_in.context.facingLimp
     /\ gto_in.context.playersInPot = 2) =>
        /\ gto_out.action = "raise"
        /\ gto_out.sizingBBs = 250
        /\ gto_out.confidence >= 85

\* aces under the gun opened against a profiled opponent
C4_Witness ==
    /\ GTOCalled
    /\ GTOHand = "AA"
    /\ gto_in.heroPosition = "UTG"
    /\ gto_in.stackSizeBBs >= 2500
    /\ gto_in.context.isRFI /\ ~gto_in.context.facingLimp
    /\ gto_in.context.playersInPot = 2
    /\ gto_in.opponentStats # << >>
    /\ gto_out.action = "raise"

\* C5: first in with at most 17 BB, at a table position: the decision is
\* all-in (sizing = stack) or fold, all-in exactly when the strength reaches
\* the shove-table entry of (bucket, position), bucket "10" up to 12 BB and
\* "15" above; A2s on the button with 12 BB is all-in.
C5_NashShoveOrFold ==
    (/\ GTOCalled
     /\ gto_in.stackSizeBBs <= 1700
     /\ gto_in.context.isRFI
     /\ gto_in.heroPosition \in Positions) =>
        LET bucket == IF gto_in.stackSizeBBs <= 1200 THEN "10" ELSE "15"
            entry == NASH_SHOVE_RANGES[bucket][gto_in.heroPosition]
        IN  /\ gto_out.action \in {"all-in", "fold"}
            /\ gto_out.action = "all-in" <=> getHandStrength(GTOHand) >= entry
            /\ gto_out.action = "all-in" => gto_out.sizingBBs = gto_in.stackSizeBBs
            /\ (GTOHand = "A2s" /\ gto_in.heroPosition = "BU"
                    /\ gto_in.stackSizeBBs = 1200) => gto_out.action = "all-in"

\* A2s shoved from the button with 12 BB
C5_Witness ==
    /\ GTOCalled
    /\ GTOHand = "A2s"
    /\ gto_in.heroPosition = "BU"
    /\ gto_in.stackSizeBBs = 1200
    /\ gto_in.context.isRFI
    /\ gto_out.action = "all-in"
    /\ gto_out.sizingBBs = 1200

(***************************************************************************)
(* Properties of the context detection (specification SpecCtx)             *)
(***************************************************************************)
FlagCount(c) ==
    Cardinality({f \in {"isRFI", "facingLimp", "facingOpen", "facing3Bet", "facing4Bet"} :
                    c[f]})

PFCalled == op = "getPostflopEVDecision"
Clamp(gap) == WMin(WMax(gap, GapLow), GapHigh)

\* C6: equity 80, pot 10 BB, stack 40 BB, river, not facing a bet, no
\* opponent statistics (betting allowed): the action is bet and its EV is
\* above the check EV of 8 BB.
C6_RiverValueBet ==
    (/\ PFCalled
     /\ pf_in.equity = 80 /\ pf_in.potBBs = 1000 /\ pf_in.stackBBs = 4000
     /\ pf_in.street = "river" /\ ~pf_in.facingBet
     /\ pf_in.opponentStats = << >>
     /\ pf_in.canBet) =>
        /\ pf_out.action = "bet"
        /\ WLt(EVOf(80 * 1000), pf_out.evBBs)

\* the scenario with check available: check was a candidate and lost to a bet
C6_Witness ==
    /\ PFCalled
    /\ pf_in.equity = 80 /\ pf_in.potBBs = 1000 /\ pf_in.stackBBs = 4000
    /\ pf_in.street = "river" /\ ~pf_in.facingBet
    /\ pf_in.opponentStats = << >>
    /\ pf_in.canBet /\ pf_in.canCheck
    /\ \E i \in 2..Len(pf_allEVs) :
          pf_allEVs[i].action = "check" /\ pf_allEVs[i].ev = EVOf(80 * 1000)
    /\ pf_out.action = "bet"

\* the returned action is a candidate of maximal EV
ReturnsBest ==
    \E i \in 1..Len(pf_allEVs) :
        /\ pf_out.action = pf_allEVs[i].action
        /\ pf_out.sizingBBs = pf_allEVs[i].sizingBBs
        /\ pf_out.evBBs = pf_allEVs[i].ev
        /\ \A j \in 1..Len(pf_allEVs) : WLe(pf_allEVs[j].ev, pf_allEVs[i].ev)

\* the confidence is the clamped gap between a best candidate and the best of the others
GapToRunnerUp ==
    \E i \in 1..Len(pf_allEVs), k \in 1..Len(pf_allEVs) :
        /\ i # k
        /\ \A j \in 1..Len(pf_allEVs) : WLe(pf_allEVs[j].ev, pf_allEVs[i].ev)
        /\ \A j \in 1..Len(pf_allEVs) : j # i => WLe(pf_allEVs[j].ev, pf_allEVs[k].ev)
        /\ pf_out.confidence = Clamp(WSub(pf_allEVs[i].ev, pf_allEVs[k].ev))

NoCandidateDefault ==
    Len(pf_allEVs) = 0 =>
        /\ pf_out.action = "check"
        /\ pf_out.sizingBBs = 0
        /\ pf_out.confidence = WInt(0)

\* C7 as stated: whenever a candidate is enumerated the result is a candidate
\* of maximal EV and the confidence is the gap to the runner-up over 3,
\* clamped to [0.1, 0.95]; without candidates the result is check, 0, 0.
C7_Original ==
    PFCalled =>
        /\ Len(pf_allEVs) >= 1 => (ReturnsBest /\ GapToRunnerUp)
        /\ NoCandidateDefault

\* C7 (amended): as C7, the confidence being the clamped gap to the runner-up
\* when at least two candidates are enumerated, and 0.95 when there is
\* exactly one candidate.
C7_BestByEV ==
    PFCalled =>
        /\ Len(pf_allEVs) >= 1 => ReturnsBest
        /\ Len(pf_allEVs) >= 2 => GapToRunnerUp
        /\ Len(pf_allEVs) = 1 => pf_out.confidence = GapHigh
        /\ NoCandidateDefault

\* several candidates, the best not the first enumerated, the gap inside the clamp
C7_Witness ==
    /\ PFCalled
    /\ Len(pf_allEVs) >= 3
    /\ pf_out.action = "bet"
    /\ WLt(GapLow, pf_out.confidence)
    /\ WLt(pf_out.confidence, GapHigh)

(***************************************************************************)
(* Properties of the opponent ranges.                                      *)
(***************************************************************************)
\* the statistics give no read: null, or fewer than 8 hands
NoRead(stats) == stats = << >> \/ getTotalHands(stats[1]) < 8

\* the range is 1.0 from the cutoff up and 0.0 below it
CutAt(range, cutoff) ==
    \A i \in 1..Len(range) :
        range[i].weight =
            IF getHandStrength(range[i].hand) >= cutoff THEN ROne ELSE RZero

\* C8: from every position, with null statistics or statistics over fewer
\* than 8 hands, the starting range weighs 1.0 every hand class whose strength
\* is at least the opening cutoff of the position (82 under the gun) and 0.0
\* every class below it.
C8_StartingRangeByCutoff ==
    (op = "initRange" /\ NoRead(rt_call.stats)) =>
        /\ CutAt(ranges[rt_call.playerId],
                 Lookup(POSITION_OPEN_CUTOFFS, rt_call.position, 70))
        /\ rt_call.position = "UTG" => CutAt(ranges[rt_call.playerId], 82)

\* under the gun without statistics: a class exactly at the cutoff is in, a
\* class just below it is out
C8_Witness ==
    /\ op = "initRange"
    /\ rt_call.position = "UTG" /\ rt_call.stats = << >>
    /\ \E i, j \in 1..Len(ranges[rt_call.playerId]) :
        LET r == ranges[rt_call.playerId]
        IN  /\ getHandStrength(r[i].hand) = 82 /\ r[i].weight = ROne
            /\ getHandStrength(r[j].hand) < 82 /\ r[j].weight = RZero

\* C9 as stated: every weight of every stored range is within [0, 1].
C9_WeightsInUnitInterval ==
    \A p \in DOMAIN ranges :
        \A i \in 1..Len(ranges[p]) :
            QLe(RZero, ranges[p][i].weight) /\ QLe(ranges[p][i].weight, ROne)

\* the range lists the 169 classes of ALL_HANDS, each once, in that order
Canonical(range) ==
    /\ Len(range) = 169
    /\ Len(range) = Len(ALL_HANDS)
    /\ \A i \in 1..Len(range) : range[i].hand = ALL_HANDS[i]
    /\ Cardinality({range[i].hand : i \in 1..Len(range)}) = 169

\* C10: every range the tracker holds lists exactly the 169 hand classes,
\* each once and in the order of ALL_HANDS; narrowing changes weights only.
C10_RangeShape ==
    \A p \in DOMAIN ranges : Canonical(ranges[p])

\* a range narrowed by an open raise and then by a postflop action: some
\* class has a weight strictly between 0 and 1
C10_Witness ==
    /\ op = "applyAction"
    /\ rt_call.street # "preflop" /\ rt_call.street # ""
    /\ rt_call.playerId \in DOMAIN ranges
    /\ \E i \in 1..Len(ranges[rt_call.playerId]) :
        LET w == ranges[rt_call.playerId][i].weight
        IN  QLt(RZero, w) /\ QLt(w, <<1, 20>>)

\* C11 as stated: after a reset, an opponent for whom no method has been
\* called since has, when queried with getRange, the full range with all 169
\* weights 1.0.
C11_UnseenOpponentFullRange ==
    wasReset =>
        \A p \in RTPlayers :
            ~has(ranges, p) => getRange(ranges, p) = <<createFullRange>>

(***************************************************************************)
(* Properties of the pure helpers.                                         *)
(***************************************************************************)
NonNegative(range) == \A i \in 1..Len(range) : QLe(RZero, range[i].weight)

\* C12: normalizeRange returns weights that sum to 1 when the weights are
\* non-negative with a positive sum, returns its argument when the sum is
\* zero, and normalizing its result again returns that result.
C12_NormalizeRange ==
    op = "normalizeRange" =>
        LET total == reduceWeights(fn_in.arg)
        IN  /\ (NonNegative(fn_in.arg) /\ QLt(RZero, total)) =>
                    reduceWeights(fn_out) = ROne
            /\ total = RZero => fn_out = fn_in.arg
            /\ normalizeRange(fn_out) = fn_out
            /\ Len(fn_out) = Len(fn_in.arg)
            /\ \A i \in 1..Len(fn_out) : fn_out[i].hand = fn_in.arg[i].hand

\* a range of several classes whose weights sum to more than 1 was rescaled
C12_Witness ==
    /\ op = "normalizeRange"
    /\ Len(fn_in.arg) >= 2
    /\ QLt(ROne, reduceWeights(fn_in.arg))
    /\ fn_out # fn_in.arg
    /\ reduceWeights(fn_out) = ROne

CanonicalClasses == {ALL_HANDS[i] : i \in 1..Len(ALL_HANDS)}

\* the suited class of every two different ranks scores at least as high as the offsuit one
SuitedAtLeastOffsuit ==
    \A i, j \in 1..Len(RANKS) :
        i < j => getHandStrength(RANKS[i] \o RANKS[j] \o "s")
                    >= getHandStrength(RANKS[i] \o RANKS[j] \o "o")

\* what the table gives for the 169 classes, and the order of AA, AKo, 72o
CanonicalStrength ==
    /\ \A h \in CanonicalClasses :
        /\ h \in DOMAIN HAND_STRENGTH
        /\ getHandStrength(h) = HAND_STRENGTH[h]
        /\ getHandStrength(h) \in 0..100
    /\ getHandStrength("AA") > getHandStrength("AKo")
    /\ getHandStrength("AKo") > getHandStrength("72o")
    /\ SuitedAtLeastOffsuit

\* C14 as stated: each of the 169 classes gets its own table entry, an
\* integer in [0, 100]; any other string gets 30; AA > AKo > 72o; suited is
\* at least offsuit.
C14_HandStrengthTotal ==
    op = "getHandStrength" =>
        /\ CanonicalStrength
        /\ fn_in.arg \in CanonicalClasses => fn_out = HAND_STRENGTH[fn_in.arg]
        /\ fn_in.arg \notin CanonicalClasses => fn_out = 30

(***************************************************************************)
(* Properties of calculateEquity.                                          *)
(***************************************************************************)
EquityCalled == op \in {"calculateEquity", "trial", "return"}

\* the cards of the deck that the hero or the board hold, a ten spelled "10" being the ten
KnownCards ==
    {normalizeCard(eq_in.heroCards[i]) : i \in 1..Len(eq_in.heroCards)}
        \cup {normalizeCard(eq_in.boardCards[i]) : i \in 1..Len(eq_in.boardCards)}

\* the residual deck is too small for the board completion and two cards per opponent
DeckTooSmall ==
    52 - Cardinality(KnownCards) < (5 - Len(eq_in.boardCards)) + 2 * eq_in.numOpponents

\* C13: calculateEquity returns exactly 50 without running a trial when the
\* deck without the hero and board cards holds fewer than (5 - board size)
\* + 2 * numOpponents cards; otherwise it returns only after all
\* numSimulations trials, a value in [0, 100].
C13_DeckCapacity ==
    EquityCalled =>
        /\ DeckTooSmall => (eq_out = <<<<50, 1>>>> /\ eq_deal = << >> /\ eq_sim = 0)
        /\ ~DeckTooSmall =>
            /\ op = "calculateEquity" => eq_out = << >>
            /\ eq_out # << >> =>
                /\ Len(eq_deal) = eq_in.numSimulations
                /\ QLe(RZero, eq_out[1])
                /\ QLe(eq_out[1], <<100, 1>>)

\* 23 opponents on a full board need 46 of the 45 residual cards: 50 at once
C13_Witness ==
    /\ op = "calculateEquity"
    /\ eq_in.numOpponents = 23
    /\ Len(eq_in.boardCards) = 5
    /\ eq_out = <<<<50, 1>>>>
    /\ eq_deal = << >>

\* the hero's rank is strictly better (lower) than every opponent's
HeroWins(deal) ==
    \A i \in 1..Len(deal.oppRanks) : deal.heroRank < deal.oppRanks[i]

\* no opponent is strictly better than the hero and some opponent has the hero's rank
HeroTies(deal) ==
    /\ \A i \in 1..Len(deal.oppRanks) : ~(deal.oppRanks[i] < deal.heroRank)
    /\ \E i \in 1..Len(deal.oppRanks) : deal.oppRanks[i] = deal.heroRank

\* C17 as stated: with at least one opponent a trial is counted as a win iff
\* the hero's rank is strictly better than every opponent's and as a tie iff
\* no opponent is strictly better and at least one is equal; the result is
\* (wins + 0.5 * ties) / trials * 100.
C17_WinsAndTies ==
    (EquityCalled /\ eq_in.numOpponents >= 1) =>
        LET won == Cardinality({i \in 1..Len(eq_deal) : HeroWins(eq_deal[i])})
            tied == Cardinality({i \in 1..Len(eq_deal) : HeroTies(eq_deal[i])})
        IN  /\ eq_wins = won
            /\ eq_ties = tied
            /\ (op = "return" /\ eq_out # << >>) =>
                    eq_out[1] = RNorm((2 * won + tied) * 100, 2 * eq_in.numSimulations)

(***************************************************************************)
(* Further properties of the preflop engine, the betting log and the       *)
(* opponent ranges.                                                        *)
(***************************************************************************)
\* the decision of a call with the arguments of the last call and the draws rnd
DecisionWith(rnd) ==
    getGTOPreflopAction(gto_in.card1, gto_in.card2, gto_in.heroPosition,
                        gto_in.stackSizeBBs, gto_in.context, gto_in.opponentStats, rnd)

\* C15 as stated: two calls of getGTOPreflopAction with identical cards,
\* position, stack, context and opponent statistics return the identical
\* decision (the function takes no seed and no random source).
C15_SameInputsSameDecision ==
    GTOCalled => \A rnd \in {<<0, 0>>, <<50, 50>>} : DecisionWith(rnd) = gto_out

\* the positions in the log of the raises, hero's included
RaisesOf(log) == {i \in 1..Len(log) : log[i].action \in {"raises", "bets"}}

\* the raises of the log are made by hero and the opponents in this order
\* (TRUE for hero)
RaisedInTurn(log, byHero) ==
    /\ Cardinality(RaisesOf(log)) = Len(byHero)
    /\ \A k \in 1..Len(byHero) :
        \E i \in RaisesOf(log) :
            /\ Cardinality({j \in RaisesOf(log) : j < i}) = k - 1
            /\ (log[i].playerId = HeroId) = byHero[k]

\* C16 as stated: hero's open raise re-raised by one opponent is reported as
\* facing3Bet; hero's 3-bet of an opponent's open re-raised once more is
\* reported as facing4Bet.
C16_ReraiseFacesHero ==
    /\ RaisedInTurn(ctx_in.playerActions, <<TRUE, FALSE>>) => ctx_out.facing3Bet
    /\ RaisedInTurn(ctx_in.playerActions, <<FALSE, TRUE, FALSE>>) => ctx_out.facing4Bet

\* a preflop raise passed to applyAction
PreflopRaise(c) ==
    /\ c.name = "applyAction"
    /\ c.action = "raises"
    /\ c.street \in {"preflop", ""}

\* C18 as stated: when a preflop raise of an opponent follows an earlier
\* raise of the hand, the classes of that opponent's range at or above the
\* 3-bet cutoff of the position keep their weight, the bluff candidates below
\* it are multiplied by 0.35 and all other classes by 0.02.
C18_ThreeBetNarrowing ==
    [][(/\ PreflopRaise(rt_call)
        /\ PreflopRaise(rt_call')
        /\ nOps' = nOps + 1
        /\ rt_call'.playerId # rt_call.playerId)
       => LET p == rt_call'.playerId
              before == IF has(ranges, p) THEN ranges[p] ELSE createFullRange
          IN  ranges'[p] = narrowBy3Bet(before, rt_call'.position, rt_call'.stats)]_vars

\* C19 as stated: narrowByPostflopCall leaves the weight of every class of
\* strength 50 to 95 as it is and multiplies every other weight by a factor
\* below 1.
C19_CallBandUnscaled ==
    op = "narrowByPostflopCall" =>
        \A i \in 1..Len(fn_out) :
            LET strength == getHandStrength(fn_in.arg[i].hand)
                before == fn_in.arg[i].weight
                after == fn_out[i].weight
            IN  IF strength >= 50 /\ strength <= 95 THEN after = before
                ELSE IF before = RZero THEN after = RZero
                ELSE QLt(after, before)

\* C19 (amended): narrowByPostflopCall leaves the weight of every class of
\* strength 50 to 69 as it is and multiplies every other weight by a factor
\* below 1 (0.85 from 70 to 94, 0.3 from 95 up, 0.6 from 35 to 49, 0.1 below).
C19_CoreCallBand ==
    op = "narrowByPostflopCall" =>
        \A i \in 1..Len(fn_out) :
            LET strength == getHandStrength(fn_in.arg[i].hand)
                before == fn_in.arg[i].weight
                after == fn_out[i].weight
            IN  /\ Len(fn_out) = Len(fn_in.arg)
                /\ fn_out[i].hand = fn_in.arg[i].hand
                /\ after = RMul(before,
                                IF strength >= 95 THEN <<3, 10>>
                                ELSE IF strength >= 70 THEN <<17, 20>>
                                ELSE IF strength >= 50 THEN ROne
                                ELSE IF strength >= 35 THEN <<3, 5>>
                                ELSE <<1, 10>>)
                /\ IF strength >= 50 /\ strength < 70 THEN after = before
                   ELSE IF before = RZero THEN after = RZero
                   ELSE QLt(after, before)

\* the full range was narrowed: AQo (90) went down to 0.85, 32s (51) stayed at 1
C19_Witness ==
    /\ op = "narrowByPostflopCall"
    /\ fn_in.arg = createFullRange
    /\ \E i, j \in 1..Len(fn_out) :
        /\ fn_out[i].hand = "AQo" /\ fn_out[i].weight = <<17, 20>>
        /\ fn_out[j].hand = "32s" /\ fn_out[j].weight = ROne

\* the RFI or facing-limp branch of a deep stack
RFIBranch ==
    /\ GTOCalled
    /\ gto_in.stackSizeBBs >= 2500
    /\ gto_in.context.isRFI \/ gto_in.context.facingLimp

\* the position threshold with the exploit and multiway adjustments
RFIBar ==
    Lookup(RFI_THRESHOLDS, gto_in.heroPosition, 75)
        + getExploitAdjustment(gto_in.opponentStats).rfiAdjust
        + 5 * Max(0, gto_in.context.playersInPot - 2)

\* 5 when hero faces a limp with at most three players in the pot
IsolationDiscount ==
    IF gto_in.context.facingLimp /\ gto_in.context.playersInPot <= 3 THEN 5 ELSE 0

\* raise from the bar up; below it fold, or complete from the small blind
\* with a suited hand of strength 45 or more
RaiseFrom(bar) ==
    LET strength == getHandStrength(GTOHand)
    IN  /\ gto_out.action = "raise" <=> strength >= bar
        /\ strength < bar =>
            IF gto_in.heroPosition = "SB" /\ strength >= 45 /\ endsWithS(GTOHand)
            THEN gto_out.action = "call" /\ gto_out.sizingBBs = 50
            ELSE gto_out.action = "fold"

\* C20 as stated: in the RFI or facing-limp branch the raise is made iff the
\* strength reaches position threshold + rfiAdjust + 5 per player beyond two.
C20_Original == RFIBranch => RaiseFrom(RFIBar)

\* C20 (amended): as C20, the bar being 5 lower when hero faces a limp with
\* at most three players in the pot.
C20_RaiseFirstIn == RFIBranch => RaiseFrom(RFIBar - IsolationDiscount)

\* over one limper a hand below the undiscounted bar is raised
C20_Witness ==
    /\ RFIBranch
    /\ gto_in.context.facingLimp
    /\ gto_in.context.playersInPot = 3
    /\ getHandStrength(GTOHand) < RFIBar
    /\ gto_out.action = "raise"

(***************************************************************************)
(* C21: open-raise sizing                                                  *)
(***************************************************************************)
\* the players other than hero who called in the log hero decides on
Limpers ==
    {ctx_in.playerActions[i].playerId : i \in
        {j \in 1..Len(ctx_in.playerActions) :
            /\ ctx_in.playerActions[j].action = "calls"
            /\ ctx_in.playerActions[j].playerId # HeroId}}

\* hero's decision on the analysed log was a raise of the RFI branch
RFIRaiseOnLog ==
    /\ GTOCalled
    /\ gto_in.stackSizeBBs >= 2500
    /\ gto_in.context = ctx_out
    /\ ctx_out.isRFI \/ ctx_out.facingLimp
    /\ gto_out.action = "raise"

\* C21: whenever the RFI branch raises, the sizing is 3.0 BB from the small
\* blind and otherwise 2.5 BB plus 1 BB per limper (2.5 BB with no limper,
\* 3.5 BB over one limper, 4.5 BB over two).
C21_OpenSizing ==
    RFIRaiseOnLog =>
        gto_out.sizingBBs =
            IF gto_in.heroPosition = "SB" THEN 300
            ELSE 250 + 100 * Cardinality(Limpers)

(***************************************************************************)
(* C22: frequency of the bluff 3-bet                                       *)
(***************************************************************************)
\* Math.random is uniform on [0, 1) and the engine compares a draw with 0.3,
\* 0.35 and 0.4 only: the decision is the same for every draw of one cell.
\* at: a draw of the cell, in percent; mass: the cell's probability, in percent
DrawCells ==
    << [at |-> 0, mass |-> 30], [at |-> 30, mass |-> 5],
       [at |-> 35, mass |-> 5], [at |-> 40, mass |-> 60] >>

IsBluff3Bet(dec) ==
    dec.action = "raise" /\ dec.reasoning \in {"GTO 3-bet bluff", "BB 3-bet bluff"}

\* the probability, in units of 10^-4, that the call of gto_in with the first
\* draw in cell i and the second in the cells j.. returns a bluff 3-bet
RECURSIVE bluffMassFrom(_, _)
bluffMassFrom(i, j) ==
    IF i > Len(DrawCells) THEN 0
    ELSE IF j > Len(DrawCells) THEN bluffMassFrom(i + 1, 1)
    ELSE (IF IsBluff3Bet(DecisionWith(<<DrawCells[i].at, DrawCells[j].at>>))
          THEN DrawCells[i].mass * DrawCells[j].mass ELSE 0)
         + bluffMassFrom(i, j + 1)

BluffMass == bluffMassFrom(1, 1)

\* a deep stack facing an open with a hand below the value 3-bet threshold
FacingOpenBelowValue ==
    /\ GTOCalled
    /\ gto_in.stackSizeBBs >= 2500
    /\ ~(gto_in.context.isRFI \/ gto_in.context.facingLimp)
    /\ gto_in.context.facingOpen
    /\ getHandStrength(GTOHand) <
           Lookup(THREE_BET_VALUE_THRESHOLDS, "vs_" \o gto_in.context.openRaiserPosition, 92)
               + getExploitAdjustment(gto_in.opponentStats).threeBetAdjust
               + getMultiwayAdjustment(gto_in.context.playersInPot)

\* a bluff 3-bet is possible only from the bluff set with at most 3 players
BluffOnlyFromSet ==
    BluffMass > 0 =>
        includes(THREE_BET_BLUFFS, GTOHand) /\ gto_in.context.playersInPot <= 3

\* C22: facing an open with stack >= 25 and a hand below the value 3-bet
\* threshold, a bluff 3-bet is returned only if the hand is in the bluff set
\* and playersInPot <= 3, and with probability over the draws at most 0.40,
\* for every hero position, the big blind included.
C22_BluffFrequency ==
    FacingOpenBelowValue => BluffOnlyFromSet /\ BluffMass <= 4000

\* the same for every hero position but the big blind
C22_OutsideBigBlind ==
    FacingOpenBelowValue /\ gto_in.heroPosition # "BB" =>
        BluffOnlyFromSet /\ BluffMass <= 4000

\* C22, the first part alone
C22_OnlyFromSet == FacingOpenBelowValue => BluffOnlyFromSet

(***************************************************************************)
(* C23: the raise candidates of the postflop engine                        *)
(***************************************************************************)
RaiseCandidates == SelectSeq(pf_allEVs, LAMBDA c : c.action = "raise")

\* call amount + fraction x pot, the bet part limited to the stack
RaiseTotal(fraction) ==
    pf_in.betToCallBBs + Min((pf_in.potBBs * fraction) \div 100, pf_in.stackBBs)

\* the fractions whose raise is enumerated: a positive bet part, a total
\* within the stack
KeptFractions ==
    {i \in 1..Len(BET_SIZE_FRACTIONS) :
        /\ pf_in.potBBs * BET_SIZE_FRACTIONS[i] > 0
        /\ RaiseTotal(BET_SIZE_FRACTIONS[i]) <= pf_in.stackBBs}

FacingBetCanRaise ==
    PFCalled /\ pf_in.facingBet /\ pf_in.canBet /\ pf_in.stackBBs > 0

\* C23 as stated: facing a bet, able to raise and with stack > 0, there is
\* one raise candidate for each of the five pot fractions, sized call amount
\* + fraction x pot and clipped to the stack; no fraction is dropped.
C23_Original ==
    FacingBetCanRaise =>
        /\ Len(RaiseCandidates) = Len(BET_SIZE_FRACTIONS)
        /\ \A i \in 1..Len(BET_SIZE_FRACTIONS) :
            \E k \in 1..Len(RaiseCandidates) :
                RaiseCandidates[k].sizingBBs =
                    Min(pf_in.betToCallBBs + (pf_in.potBBs * BET_SIZE_FRACTIONS[i]) \div 100,
                        pf_in.stackBBs)

\* C23 (amended): there is one raise candidate for each pot fraction whose
\* bet part is positive and whose total, call amount + min(fraction x pot,
\* stack), is within the stack, sized at that total; the other fractions are
\* dropped, none is clipped.
C23_RaiseCandidates ==
    FacingBetCanRaise =>
        /\ Len(RaiseCandidates) = Cardinality(KeptFractions)
        /\ \A i \in KeptFractions :
            \E k \in 1..Len(RaiseCandidates) :
                RaiseCandidates[k].sizingBBs = RaiseTotal(BET_SIZE_FRACTIONS[i])
        /\ \A k \in 1..Len(RaiseCandidates) :
            \E i \in KeptFractions :
                RaiseCandidates[k].sizingBBs = RaiseTotal(BET_SIZE_FRACTIONS[i])

\* some fractions are enumerated and one whose total exceeds the stack is dropped
C23_Witness ==
    /\ FacingBetCanRaise
    /\ pf_in.potBBs > 0
    /\ pf_in.betToCallBBs > 0
    /\ Len(RaiseCandidates) \in 1..4
    /\ \E i \in 1..Len(BET_SIZE_FRACTIONS) :
        pf_in.betToCallBBs + (pf_in.potBBs * BET_SIZE_FRACTIONS[i]) \div 100 > pf_in.stackBBs

(***************************************************************************)
(* C24: the all-in candidate of the postflop engine                        *)
(***************************************************************************)
AllInCandidates == SelectSeq(pf_allEVs, LAMBDA c : c.action = "all-in")

ShortOfTwoPots == pf_in.stackBBs <= 2 * pf_in.potBBs

\* one all-in candidate, sized at the full stack
HasAllIn ==
    /\ Len(AllInCandidates) = 1
    /\ AllInCandidates[1].sizingBBs = pf_in.stackBBs

\* C24 as stated: an all-in candidate sized at the full stack is included
\* whenever stackBBs <= 2 x potBBs, for every combination of facingBet,
\* canCheck and canBet, and never when stackBBs > 2 x potBBs.
C24_Original ==
    PFCalled =>
        IF ShortOfTwoPots THEN HasAllIn ELSE Len(AllInCandidates) = 0

\* C24 (amended): an all-in candidate sized at the full stack is included
\* whenever canBet is true and stackBBs <= 2 x potBBs, for every combination
\* of facingBet and canCheck, and never when stackBBs > 2 x potBBs or canBet
\* is false.
C24_AllInCandidate ==
    PFCalled =>
        IF pf_in.canBet /\ ShortOfTwoPots THEN HasAllIn ELSE Len(AllInCandidates) = 0

\* a stack of exactly two pots, hero facing a bet and unable to check
C24_Witness ==
    /\ PFCalled
    /\ pf_in.canBet /\ pf_in.facingBet /\ ~pf_in.canCheck
    /\ pf_in.stackBBs > 0
    /\ pf_in.stackBBs = 2 * pf_in.potBBs
    /\ HasAllIn

(***************************************************************************)
(* C25: the description of a range                                         *)
(***************************************************************************)
\* the number of classes of positive weight in the described range
PositiveClasses == Cardinality({i \in 1..Len(fn_in.arg) : QGt(fn_in.arg[i].weight, RZero)})

\* describeRange was called on a range whose positive weights are all equal
DescribedEqualWeights ==
    /\ op = "describeRange"
    /\ \A i, j \in 1..Len(fn_in.arg) :
        QGt(fn_in.arg[i].weight, RZero) /\ QGt(fn_in.arg[j].weight, RZero)
            => fn_in.arg[i].weight = fn_in.arg[j].weight

\* the band the count n of positive-weight classes belongs to
BandOf(n) ==
    IF n = 0 THEN {"Unknown range"}
    ELSE IF n = Len(ALL_HANDS) THEN {"Very wide range"}
    ELSE IF n <= 50 THEN {"Very tight range", "Tight range"}
    ELSE IF n <= 100 THEN {"Medium range"}
    ELSE {"Wide range"}

\* C25 as stated: for a range in which N classes carry equal positive weight
\* and the rest zero, describeRange reports a very tight or tight band for
\* N <= 50, a medium band for 51 <= N <= 100, a wide band for N > 100, 'Very
\* wide range' for the full uniform range, and 'Unknown range' only when no
\* class has positive weight.
C25_DescribeBands ==
    DescribedEqualWeights =>
        /\ fn_out \in BandOf(PositiveClasses)
        /\ fn_out = "Unknown range" => PositiveClasses = 0

\* the same for fewer than 100 classes of positive weight
C25_BelowHundred ==
    DescribedEqualWeights /\ PositiveClasses < 100 =>
        /\ fn_out \in BandOf(PositiveClasses)
        /\ fn_out = "Unknown range" => PositiveClasses = 0

\* no range at all is described as wide or very wide
C25_NeverWide ==
    op = "describeRange" => fn_out \notin {"Wide range", "Very wide range"}

(***************************************************************************)
(* C26, C27: the sizing of the postflop decision                           *)
(***************************************************************************)
NonNegativeInput ==
    pf_in.stackBBs >= 0 /\ pf_in.potBBs >= 0 /\ pf_in.betToCallBBs >= 0

\* C26 as stated: for every input with stackBBs >= 0, potBBs >= 0 and
\* betToCallBBs >= 0 the sizingBBs returned by getPostflopEVDecision never
\* exceeds stackBBs, whichever action is chosen.
C26_SizingWithinStack ==
    PFCalled /\ NonNegativeInput => pf_out.sizingBBs <= pf_in.stackBBs

\* the same for the actions other than call
C26_BetsWithinStack ==
    PFCalled /\ NonNegativeInput /\ pf_out.action # "call"
        => pf_out.sizingBBs <= pf_in.stackBBs

\* C27 as stated: whenever getPostflopEVDecision returns 'bet', 'raise' or
\* 'all-in' the returned sizingBBs is strictly positive; with stackBBs = 0
\* no aggressive action is recommended.
C27_AggressionHasChips ==
    PFCalled /\ pf_out.action \in {"bet", "raise", "all-in"} =>
        pf_out.sizingBBs > 0 /\ pf_in.stackBBs # 0

\* the same for bet and raise alone
C27_BetRaiseHasChips ==
    PFCalled /\ pf_out.action \in {"bet", "raise"} =>
        pf_out.sizingBBs > 0 /\ pf_in.stackBBs # 0

(***************************************************************************)
(* C28, C29: sizing and folds of the preflop decision                      *)
(***************************************************************************)
\* C28 as stated: every decision of getGTOPreflopAction with action 'raise',
\* 'call' or 'all-in' has sizingBBs <= stackSizeBBs, in every context and
\* for every lastRaiseSize and playersInPot.
C28_SizingWithinStack ==
    GTOCalled /\ gto_out.action \in {"raise", "call", "all-in"} =>
        gto_out.sizingBBs <= gto_in.stackSizeBBs

\* the same for the 4-bets and the shoves
C28_FourBetsAndShoves ==
    /\ GTOCalled
    /\ \/ gto_out.action = "all-in"
       \/ gto_out.action = "raise" /\ gto_out.reasoning \in {"GTO 4-bet", "GTO 4-bet bluff"}
    => gto_out.sizingBBs <= gto_in.stackSizeBBs

\* C29 as stated: for every position, stack size, preflop context and
\* opponent statistics getGTOPreflopAction never returns 'fold' when hero
\* holds pocket aces (strength 100).
C29_AcesNeverFold ==
    GTOCalled /\ GTOHand = "AA" => gto_out.action # "fold"

\* the same for stacks of 25 BB and more
C29_DeepAcesNeverFold ==
    GTOCalled /\ GTOHand = "AA" /\ gto_in.stackSizeBBs >= 2500 => gto_out.action # "fold"

(***************************************************************************)
(* C30: 3-bets and 3-bet opportunities counted from the hand log           *)
(***************************************************************************)
AfterHandReturned == op = "postProcessLogsAfterHand"

ThreeBetsWithinOpportunities ==
    \A p \in DOMAIN player_stats :
        get3BetHands(player_stats[p]) <= get3BetOpportunities(player_stats[p])

\* in a first hand that is one open raise and nothing else, the raiser has
\* no 3-bet opportunity
OpenIsNoOpportunity ==
    \A p \in StatPlayers :
        nHands = 1 /\ lp_logs = <<HandEntry(p, "raises", "20")>>
            => get3BetOpportunities(player_stats[p]) = 0

\* C30 as stated: the counters start with three_bet_hands <=
\* three_bet_opportunities for every player, and after
\* postProcessLogsAfterHand has processed any hand log they still do: a
\* re-raise credited as a 3-bet is counted as an opportunity too, and the
\* open-raiser is credited no opportunity for their own open.
C30_ThreeBetCounters ==
    AfterHandReturned => ThreeBetsWithinOpportunities /\ OpenIsNoOpportunity

\* C30, the inequality alone
C30_Inequality == AfterHandReturned => ThreeBetsWithinOpportunities

\* C30, the open-raiser alone
C30_Opener == AfterHandReturned => OpenIsNoOpportunity

====
